---- MODULE Spec2Model ----
(***************************************************************************)
(* A model of the signal gate: the per-symbol monitor (symbolMonitor.js),  *)
(* the dispatch loop and tick (app.js), the follow-up dispatch at the end  *)
(* of checkSignal, and the second-bar price tape (priceTape.js).           *)
(*                                                                         *)
(* Numbers are fixed-point integers, rounded towards minus infinity:       *)
(*   time                       milliseconds                               *)
(*   prices, notionals, volume  1/100 of a quote unit ("cents")            *)
(*   quantities, depth          whole base units                           *)
(*   log returns, price slope,                                             *)
(*   volatilities               1/1000000 ("micro")                        *)
(*   volatilityRatio            1/1000                                     *)
(*   market capitalisation      millions of USD                            *)
(* A value that parseFloat turns into NaN is the value NaN below; every    *)
(* comparison with it is false, as in the source.                          *)
(***************************************************************************)
EXTENDS Integers, Sequences, FiniteSets, TLC

\* ------------------------------------------------------------ parameters
TIME_CACHE_DURATION_MS == 60000
CHECK_SIGNAL_INTERVAL_MS == 250
PRICE_BUCKET_DURATION_MS == 100
AGG_TRADE_BUFFER_SIZE == 250
PRICE_LOOKBACK_WINDOW_MS == 2500
MIN_TRADES_IN_1S == 5
SIGNAL_COOLDOWN_MS == 6000
PRICE_SLOPE_LOOKBACK_MS == 2000
EXPECTED_TRADE_SIZE_USD == 500
MIN_EXECUTION_MULTIPLIER == 5
MIN_24H_VOLUME_USD == 1000000
TIER_LARGE_CAP_MIN_MARKET_CAP == 5000
TIER_MID_CAP_MIN_MARKET_CAP == 500

\* The smoothing factors, as fractions: 0.1175, 0.00416, 0.000833, 0.4.
EWMA_ALPHA_VOL_FAST == <<1175, 10000>>
EWMA_ALPHA_VOL_MED == <<416, 100000>>
EWMA_ALPHA_VOL_SLOW == <<833, 1000000>>
PRICE_SLOPE_ALPHA == <<4, 10>>
\* MAX_BID_ASK_SPREAD_PCT 0.003, MIN_VOLUME_SPIKE_RATIO_1M5M 1.5,
\* VOLUME_ACCEL_ZSCORE 2.0, PRICE_SLOPE_ZSCORE 1.9, as fractions.
MAX_BID_ASK_SPREAD_PCT == <<3, 1000>>
MIN_VOLUME_SPIKE_RATIO_1M5M == <<15, 10>>
VOLUME_ACCEL_ZSCORE == <<20, 10>>
PRICE_SLOPE_ZSCORE == <<19, 10>>

NaN == 0 - 1000000000
IsFinite(x) == x # NaN

Min(a, b) == IF a < b THEN a ELSE b
Max(a, b) == IF a > b THEN a ELSE b

\* Math.max, Math.min, + and * of two numbers either of which may be NaN;
\* Math.floor(x / 1000).
MathMax(a, b) == IF a = NaN \/ b = NaN THEN NaN ELSE Max(a, b)
MathMin(a, b) == IF a = NaN \/ b = NaN THEN NaN ELSE Min(a, b)
Plus(a, b) == IF a = NaN \/ b = NaN THEN NaN ELSE a + b
Times(a, b) == IF a = NaN \/ b = NaN THEN NaN ELSE a * b
FloorSeconds(tsMs) == IF tsMs = NaN THEN NaN ELSE tsMs \div 1000

RECURSIVE ISqrtIn(_, _, _)
ISqrtIn(x, lo, hi) ==
    IF lo >= hi THEN lo
    ELSE LET mid == (lo + hi + 1) \div 2
         IN IF mid * mid <= x THEN ISqrtIn(x, mid, hi) ELSE ISqrtIn(x, lo, mid - 1)

\* Math.sqrt, rounded down.
ISqrt(x) == IF x <= 0 THEN 0 ELSE ISqrtIn(x, 0, 46340)

\* Math.sqrt(365 * 24 * 60 * 60)
SqrtSecondsPerYear == ISqrt(365 * 24 * 60 * 60)

\* arr.reduce((s, x) => s + x, 0). The sum is taken half by half, which
\* gives the sum of the reduce and keeps the evaluation shallow on the
\* 1800 bars of a full window.
RECURSIVE SumSeq(_)
SumSeq(s) ==
    IF s = <<>> THEN 0
    ELSE IF Len(s) = 1 THEN s[1]
    ELSE LET half == Len(s) \div 2
         IN SumSeq(SubSeq(s, 1, half)) + SumSeq(SubSeq(s, half + 1, Len(s)))

\* arr.reduce((s, x) => s + (x - mean) ** 2, 0)
SumSq(s, mean) == SumSeq([i \in 1..Len(s) |-> (s[i] - mean) * (s[i] - mean)])

\* arr.reduce(mean), arr.reduce(variance) / arr.length, Math.sqrt
PopulationSigma(arr) ==
    LET mean == SumSeq(arr) \div Len(arr)
        varr == SumSq(arr, mean) \div Len(arr)
    IN IF \E i \in 1..Len(arr) : arr[i] = NaN THEN NaN ELSE ISqrt(varr)

\* ------------------------------------------------------- circularBuffer
BufferAdd_DropsNewest(buffer, capacity, item) ==
    IF Len(buffer) = capacity THEN Append(SubSeq(buffer, 1, Len(buffer) - 1), item)
    ELSE Append(buffer, item)

BufferAdd(buffer, capacity, item) ==
    IF Len(buffer) = capacity THEN Append(Tail(buffer), item) ELSE Append(buffer, item)

BufferNewest(buffer) == buffer[Len(buffer)]

\* CircularBuffer.get(i): 0 is the oldest
BufferGet(buffer, i) == buffer[i + 1]

\* CircularBuffer.toArray(): a copy of the array
BufferToArray(buffer) == [i \in 1..Len(buffer) |-> buffer[i]]

\* CircularBuffer.size
BufferSize(buffer) == Len(buffer)

\* new CircularBuffer(capacity)
NewCircularBuffer(capacity) == [capacity |-> capacity, buffer |-> <<>>]

\* --------------------------------------------------------- pairSelector
classifyTier(marketCap) ==
    IF marketCap >= TIER_LARGE_CAP_MIN_MARKET_CAP THEN "large"
    ELSE IF marketCap >= TIER_MID_CAP_MIN_MARKET_CAP THEN "mid"
    ELSE "small"

\* -------------------------------------------------------- symbolMonitor
\* The capacity of priceBuckets: Math.ceil(2500 / 100) + 5.
PriceBucketCapacity ==
    (PRICE_LOOKBACK_WINDOW_MS + PRICE_BUCKET_DURATION_MS - 1) \div PRICE_BUCKET_DURATION_MS + 5

\* constructor
NewMonitor(symbol, marketCapTier) ==
    [ symbol |-> symbol, marketCapTier |-> marketCapTier,
      accelHistory |-> <<>>, accelSigma |-> 0,
      priceSlope |-> 0, priceSlopeHist |-> <<>>, priceSlopeSigma |-> 0,
      cachedDayOfWeek |-> 0, cachedHourOfDay |-> 0, cachedIsWeekend |-> FALSE,
      lastTimeCacheUpdate |-> 0,
      aggTrades |-> <<>>, bestBid |-> 0, bestAsk |-> 0, bidAskMidpoint |-> 0,
      current1sVolumeSum |-> 0, current1sTradeCount |-> 0,
      ewma1sVolumeFast |-> 0, ewma5mVolumeBaseline |-> 0, ewma1mVolumeBaseline |-> 0,
      prevEwma1s |-> 0, volumeAccel |-> 0,
      current1sTakerBuyVolume |-> 0, current1sTakerSellVolume |-> 0,
      lastPrice |-> 0, priceBuckets |-> <<>>, lastPriceBucketTime |-> 0,
      returnHistory |-> <<>>, lastReturnCalcTime |-> 0, lastPriceForReturn |-> 0,
      volatility30s |-> 0, volatility5m |-> 0, volatilityRatio |-> 1000,
      depth5BidVolume |-> 0, depth5AskVolume |-> 0,
      ticker24hrVolumeUsdt |-> 0,
      rsiPriceHistory |-> <<>>, rsiValue |-> 500, avgGain |-> 0, avgLoss |-> 0,
      emaFast |-> 0, emaSlow |-> 0, ppoLine |-> 0, signalLine |-> 0, ppoHistogram |-> 0,
      ema9 |-> 0, ema21 |-> 0, ema50 |-> 0,
      lastSignalTriggerTime |-> 0 ]

\* new Date(now).getUTCHours(), getUTCDay(): the epoch began on a Thursday.
UTCHours(now) == (now \div 3600000) % 24
UTCDay(now) == ((now \div 86400000) + 4) % 7

updateTimeCache_Always(m, now) ==
    [m EXCEPT !.cachedDayOfWeek = UTCDay(now),
              !.cachedHourOfDay = UTCHours(now),
              !.cachedIsWeekend = UTCDay(now) \in {0, 6},
              !.lastTimeCacheUpdate = now]

updateTimeCache(m, now) ==
    IF now - m.lastTimeCacheUpdate >= TIME_CACHE_DURATION_MS
    THEN [m EXCEPT !.cachedDayOfWeek = UTCDay(now),
                   !.cachedHourOfDay = UTCHours(now),
                   !.cachedIsWeekend = UTCDay(now) \in {0, 6},
                   !.lastTimeCacheUpdate = now]
    ELSE m

\* Math.log(currentPrice / lastPriceForReturn), in micro: with
\* x = currentPrice / lastPriceForReturn - 1, the series x - x^2/2.
LogReturn(currentPrice, lastPriceForReturn) ==
    LET x == ((currentPrice - lastPriceForReturn) * 1000000) \div lastPriceForReturn
    IN x - (x * x) \div 2000000

calculateAnnualizedVolatility(returns) ==
    IF Len(returns) < 2 THEN 0
    ELSE LET mean == SumSeq(returns) \div Len(returns)
             variance == SumSq(returns, mean) \div (Len(returns) - 1)
         IN ISqrt(variance) * SqrtSecondsPerYear

\* allReturns.filter(r => r.time > cutoff).map(r => r.return)
ReturnsAfter(all, cutoff) ==
    LET IsAfter(r) == r.time > cutoff
        kept == SelectSeq(all, IsAfter)
    IN [i \in 1..Len(kept) |-> kept[i].return]

\* updateVolatility without the test of the time since the last return
updateVolatility_Unthrottled(m, currentPrice, now) ==
    IF m.lastPriceForReturn > 0
    THEN [m EXCEPT !.returnHistory =
                       BufferAdd(m.returnHistory, 300,
                                 [time |-> now,
                                  return |-> LogReturn(currentPrice, m.lastPriceForReturn)]),
                   !.lastPriceForReturn = currentPrice,
                   !.lastReturnCalcTime = now]
    ELSE [m EXCEPT !.lastPriceForReturn = currentPrice, !.lastReturnCalcTime = now]

updateVolatility(m, currentPrice, now) ==
    IF m.lastPriceForReturn > 0 /\ now - m.lastReturnCalcTime >= 1000
    THEN LET logReturn == LogReturn(currentPrice, m.lastPriceForReturn)
             allReturns == BufferAdd(m.returnHistory, 300, [time |-> now, return |-> logReturn])
             returns30s == ReturnsAfter(allReturns, now - 30000)
             returns5m == ReturnsAfter(allReturns, now - 300000)
             v30 == IF Len(returns30s) >= 10
                    THEN calculateAnnualizedVolatility(returns30s) ELSE m.volatility30s
             v5 == IF Len(returns5m) >= 30
                   THEN calculateAnnualizedVolatility(returns5m) ELSE m.volatility5m
             ratio == IF Len(returns5m) >= 30
                      THEN (IF v5 > 0 THEN ((v30 \div 100) * 1000) \div (v5 \div 100) ELSE 1000)
                      ELSE m.volatilityRatio
         IN [m EXCEPT !.returnHistory = allReturns,
                      !.volatility30s = v30, !.volatility5m = v5,
                      !.volatilityRatio = ratio,
                      !.lastPriceForReturn = currentPrice,
                      !.lastReturnCalcTime = now]
    ELSE IF m.lastPriceForReturn = 0
         THEN [m EXCEPT !.lastPriceForReturn = currentPrice, !.lastReturnCalcTime = now]
         ELSE m

\* Math.min(5, levels.length) quantities summed
RECURSIVE SumLevels(_, _)
SumLevels(levels, n) ==
    IF n = 0 \/ levels = <<>> THEN 0 ELSE Head(levels) + SumLevels(Tail(levels), n - 1)

\* data.bids and data.asks are the quantities of the levels, best first.
updateDepthSnapshot(m, data) ==
    IF Len(data.bids) = 0 \/ Len(data.asks) = 0 THEN m
    ELSE [m EXCEPT !.depth5BidVolume = SumLevels(data.bids, 5),
                   !.depth5AskVolume = SumLevels(data.asks, 5)]

applyBookTickerUpdate_Unchecked(m, data) ==
    LET m2 == [m EXCEPT !.bestBid = data.b, !.bestAsk = data.a]
    IN IF m2.bestBid > 0 /\ m2.bestAsk > 0
       THEN [m2 EXCEPT !.bidAskMidpoint = (m2.bestBid + m2.bestAsk) \div 2]
       ELSE m2

\* data.b and data.a are the parsed floats (NaN when parseFloat fails).
applyBookTickerUpdate(m, data) ==
    LET bid == data.b
        ask == data.a
        m1 == IF IsFinite(bid) /\ bid > 0 THEN [m EXCEPT !.bestBid = bid] ELSE m
        m2 == IF IsFinite(ask) /\ ask > 0 THEN [m1 EXCEPT !.bestAsk = ask] ELSE m1
    IN IF m2.bestBid > 0 /\ m2.bestAsk > 0
       THEN [m2 EXCEPT !.bidAskMidpoint = (m2.bestBid + m2.bestAsk) \div 2]
       ELSE m2

addAggTrade(m, tradeData) ==
    LET trade == [price |-> tradeData.p, quantity |-> tradeData.q,
                  eventTime |-> tradeData.E, isBuyerMaker |-> tradeData.m]
    IN [m EXCEPT !.aggTrades = BufferAdd(m.aggTrades, AGG_TRADE_BUFFER_SIZE, trade),
                 !.lastPrice = trade.price]

applyTickerUpdate(m, ticker) ==
    [m EXCEPT !.ticker24hrVolumeUsdt = ticker.q]

\* The price of the newest bucket at or before targetTimeMs, 0 for null
\* (a bucket's price is a lastPrice > 0).
RECURSIVE HistoricalPriceFrom(_, _, _)
HistoricalPriceFrom(priceBuckets, i, targetTimeMs) ==
    IF i = 0 THEN 0
    ELSE IF priceBuckets[i].time <= targetTimeMs THEN priceBuckets[i].price
    ELSE HistoricalPriceFrom(priceBuckets, i - 1, targetTimeMs)

getHistoricalPrice(m, targetTimeMs) ==
    HistoricalPriceFrom(m.priceBuckets, Len(m.priceBuckets), targetTimeMs)

\* alpha * x + (1 - alpha) * prev, with alpha = <<numerator, denominator>>;
\* written prev + alpha * (x - prev), the same value, to stay in 32 bits.
Ewma(alpha, x, prev) ==
    IF x = NaN \/ prev = NaN THEN NaN ELSE prev + (alpha[1] * (x - prev)) \div alpha[2]

RECURSIVE Sum1s_NoBreak(_, _, _)
Sum1s_NoBreak(trades, i, oneSecAgo) ==
    IF i = 0
    THEN [vol1s |-> 0, trades1s |-> 0, buyUSDT |-> 0, sellUSDT |-> 0]
    ELSE LET t == trades[i]
             notional == Times(t.price, t.quantity)
             rest == Sum1s_NoBreak(trades, i - 1, oneSecAgo)
         IN [vol1s |-> Plus(rest.vol1s, notional),
             trades1s |-> rest.trades1s + 1,
             buyUSDT |-> Plus(rest.buyUSDT, IF ~t.isBuyerMaker THEN notional ELSE 0),
             sellUSDT |-> Plus(rest.sellUSDT, IF t.isBuyerMaker THEN notional ELSE 0)]

\* The loop over the trades from the newest back, which stops at the first
\* trade older than oneSecAgo.
RECURSIVE Sum1s(_, _, _)
Sum1s(trades, i, oneSecAgo) ==
    IF i = 0 \/ trades[i].eventTime < oneSecAgo
    THEN [vol1s |-> 0, trades1s |-> 0, buyUSDT |-> 0, sellUSDT |-> 0]
    ELSE LET t == trades[i]
             notional == Times(t.price, t.quantity)
             rest == Sum1s(trades, i - 1, oneSecAgo)
         IN [vol1s |-> Plus(rest.vol1s, notional),
             trades1s |-> rest.trades1s + 1,
             buyUSDT |-> Plus(rest.buyUSDT, IF ~t.isBuyerMaker THEN notional ELSE 0),
             sellUSDT |-> Plus(rest.sellUSDT, IF t.isBuyerMaker THEN notional ELSE 0)]

\* 1-second volume
PeriodicVolume(m, now) ==
    LET agg == Sum1s(m.aggTrades, Len(m.aggTrades), now - 1000)
    IN [m EXCEPT !.current1sVolumeSum = agg.vol1s,
                 !.current1sTradeCount = agg.trades1s,
                 !.current1sTakerBuyVolume = agg.buyUSDT,
                 !.current1sTakerSellVolume = agg.sellUSDT]

\* EWMA volume and acceleration
PeriodicEwma(m) ==
    LET vol1s == m.current1sVolumeSum
        seeded == IF m.ewma5mVolumeBaseline = 0 /\ vol1s > 0
                  THEN vol1s ELSE m.ewma5mVolumeBaseline
        fast == Ewma(EWMA_ALPHA_VOL_FAST, vol1s, m.ewma1sVolumeFast)
    IN [m EXCEPT !.ewma1sVolumeFast = fast,
                 !.ewma5mVolumeBaseline = Ewma(EWMA_ALPHA_VOL_SLOW, vol1s, seeded),
                 !.ewma1mVolumeBaseline = Ewma(EWMA_ALPHA_VOL_MED, vol1s, m.ewma1mVolumeBaseline),
                 !.volumeAccel = IF fast = NaN \/ m.prevEwma1s = NaN THEN NaN
                                 ELSE fast - m.prevEwma1s,
                 !.prevEwma1s = fast]

\* The price bucket step without the test of the floor: one more bucket
\* on every priced tick.
PeriodicPriceBucket_AlwaysAdds(m, now) ==
    IF m.lastPrice > 0
    THEN LET bucketFloor == (now \div PRICE_BUCKET_DURATION_MS) * PRICE_BUCKET_DURATION_MS
         IN [m EXCEPT !.priceBuckets = BufferAdd(m.priceBuckets, PriceBucketCapacity,
                                                   [time |-> bucketFloor, price |-> m.lastPrice]),
                      !.lastPriceBucketTime = bucketFloor]
    ELSE m

\* price bucket
PeriodicPriceBucket(m, now) ==
    IF m.lastPrice > 0
    THEN LET bucketFloor == (now \div PRICE_BUCKET_DURATION_MS) * PRICE_BUCKET_DURATION_MS
         IN IF m.lastPriceBucketTime = 0 \/ bucketFloor > m.lastPriceBucketTime
            THEN [m EXCEPT !.priceBuckets = BufferAdd(m.priceBuckets, PriceBucketCapacity,
                                                      [time |-> bucketFloor, price |-> m.lastPrice]),
                           !.lastPriceBucketTime = bucketFloor]
            ELSE IF Len(m.priceBuckets) > 0 /\ BufferNewest(m.priceBuckets).time = bucketFloor
                 THEN [m EXCEPT !.priceBuckets[Len(m.priceBuckets)].price = m.lastPrice]
                 ELSE m
    ELSE m

\* volume acceleration sigma
PeriodicAccelSigma(m) ==
    LET hist == BufferAdd(m.accelHistory, 60, m.volumeAccel)
    IN [m EXCEPT !.accelHistory = hist,
                 !.accelSigma = IF Len(hist) >= 20 THEN PopulationSigma(hist) ELSE m.accelSigma]

\* price slope, percent per second
PeriodicPriceSlope(m, now) ==
    LET found == getHistoricalPrice(m, now - PRICE_SLOPE_LOOKBACK_MS)
        priceT == IF found = 0 THEN m.lastPrice ELSE found
        pctChange == ((m.lastPrice - priceT) * 1000000) \div priceT
        slopePerS == pctChange \div (PRICE_SLOPE_LOOKBACK_MS \div 1000)
        slope == IF m.lastPrice > 0 /\ priceT > 0
                 THEN (PRICE_SLOPE_ALPHA[1] * slopePerS
                       + (PRICE_SLOPE_ALPHA[2] - PRICE_SLOPE_ALPHA[1]) * m.priceSlope)
                      \div PRICE_SLOPE_ALPHA[2]
                 ELSE m.priceSlope
        hist == BufferAdd(m.priceSlopeHist, 40, slope)
    IN [m EXCEPT !.priceSlope = slope,
                 !.priceSlopeHist = hist,
                 !.priceSlopeSigma = IF Len(hist) >= 20 THEN PopulationSigma(hist)
                                     ELSE m.priceSlopeSigma]

\* EMA alignment, MACD and RSI. The EMAs and the RSI averages are held in
\* 1/100 of the unit of the prices, the PPO and signal lines in 1/10000
\* of a percent, rsiValue in 1/10 (500 is 50). The alignment flags and
\* spreads that updateEMAAlignment derives from the three EMAs are not
\* held.
Scaled(price) == IF price = NaN THEN NaN ELSE price * 100

\* if (ema === 0) ema = currentPrice; ema = alpha * currentPrice + (1 - alpha) * ema
EmaStep(alpha, currentPrice, ema) ==
    LET seeded == IF ema = 0 THEN Scaled(currentPrice) ELSE ema
    IN IF currentPrice = NaN \/ seeded = NaN THEN NaN
       ELSE Ewma(alpha, Scaled(currentPrice), seeded)

updateEMAAlignment(m, currentPrice) ==
    [m EXCEPT !.ema9 = EmaStep(<<2, 10>>, currentPrice, m.ema9),
              !.ema21 = EmaStep(<<2, 22>>, currentPrice, m.ema21),
              !.ema50 = EmaStep(<<2, 51>>, currentPrice, m.ema50)]

updateMACD(m, currentPrice) ==
    LET emaFast == EmaStep(<<2, 4>>, currentPrice, m.emaFast)
        emaSlow == EmaStep(<<2, 11>>, currentPrice, m.emaSlow)
        ppoLine == IF emaSlow = 0 THEN 0
                   ELSE IF emaFast = NaN \/ emaSlow = NaN THEN NaN
                   ELSE ((emaFast - emaSlow) * 1000) \div (emaSlow \div 1000)
        seeded == IF m.signalLine = 0 /\ ppoLine # 0 THEN ppoLine ELSE m.signalLine
        signalLine == IF ppoLine = NaN \/ seeded = NaN THEN NaN
                      ELSE Ewma(<<2, 17>>, ppoLine, seeded)
    IN [m EXCEPT !.emaFast = emaFast, !.emaSlow = emaSlow, !.ppoLine = ppoLine,
                 !.signalLine = signalLine,
                 !.ppoHistogram = IF ppoLine = NaN \/ signalLine = NaN THEN NaN
                                  ELSE ppoLine - signalLine]

\* 100 - 100 / (1 + avgGain / avgLoss), clamped to [0, 100]
RsiOf(avgGain, avgLoss) ==
    IF avgLoss = 0 /\ avgGain = 0 THEN 500
    ELSE IF avgLoss = 0 THEN 1000
    ELSE IF avgGain = NaN \/ avgLoss = NaN THEN NaN
    ELSE MathMax(0, MathMin(1000, 1000 - (1000 * avgLoss) \div (avgGain + avgLoss)))

updateRSI(m, currentPrice) ==
    LET history == BufferAdd(m.rsiPriceHistory, 20, currentPrice)
        prices == BufferToArray(history)
        period == 9
        size == BufferSize(history)
        Delta(i) == IF prices[i] = NaN \/ prices[i - 1] = NaN THEN NaN
                    ELSE Scaled(prices[i] - prices[i - 1])
        Gain(i) == MathMax(0, Delta(i))
        Loss(i) == MathMax(0, IF Delta(i) = NaN THEN NaN ELSE 0 - Delta(i))
        Total(part) == IF \E i \in 2..size : part[i] = NaN THEN NaN
                       ELSE SumSeq([i \in 1..(size - 1) |-> part[i + 1]])
        totalGains == Total([i \in 1..size |-> IF i = 1 THEN 0 ELSE Gain(i)])
        totalLosses == Total([i \in 1..size |-> IF i = 1 THEN 0 ELSE Loss(i)])
        Smoothed(avg, x) == IF avg = NaN \/ x = NaN THEN NaN
                            ELSE ((period - 1) * avg + x) \div period
        avgGain == IF size = period + 1
                   THEN (IF totalGains = NaN THEN NaN ELSE totalGains \div period)
                   ELSE Smoothed(m.avgGain, Gain(size))
        avgLoss == IF size = period + 1
                   THEN (IF totalLosses = NaN THEN NaN ELSE totalLosses \div period)
                   ELSE Smoothed(m.avgLoss, Loss(size))
    IN IF size < period + 1 THEN [m EXCEPT !.rsiPriceHistory = history]
       ELSE [m EXCEPT !.rsiPriceHistory = history,
                      !.avgGain = avgGain, !.avgLoss = avgLoss,
                      !.rsiValue = RsiOf(avgGain, avgLoss)]

performPeriodicCalculations(m, now) ==
    LET m1 == IF m.lastPrice > 0 THEN updateVolatility(m, m.lastPrice, now) ELSE m
        m2 == PeriodicVolume(m1, now)
        m3 == PeriodicEwma(m2)
        m4 == PeriodicPriceBucket(m3, now)
        indicators == updateMACD(updateRSI(updateEMAAlignment(m4, m4.lastPrice),
                                           m4.lastPrice), m4.lastPrice)
        m5 == PeriodicAccelSigma(indicators)
    IN PeriodicPriceSlope(m5, now)

TierFloor(tier) ==
    CASE tier = "mega" -> 1000 [] tier = "large" -> 600 [] tier = "mid" -> 500
      [] tier = "small" -> 400 [] tier = "micro" -> 300 [] OTHER -> 400

\* In cents; NaN when the 24 h volume is NaN (Math.max with a NaN).
getAbsoluteVolumeFloor(m) ==
    IF ~IsFinite(m.ticker24hrVolumeUsdt) THEN NaN
    ELSE Max(TierFloor(m.marketCapTier) * 100, m.ticker24hrVolumeUsdt \div (86400 * 4))

hasSufficientLiquidity_NoDepth(m) ==
    m.bidAskMidpoint > 0 /\ m.current1sVolumeSum >= EXPECTED_TRADE_SIZE_USD * 100

hasSufficientLiquidity(m) ==
    IF m.bidAskMidpoint <= 0 THEN FALSE
    ELSE LET notionalBid == m.depth5BidVolume * m.bidAskMidpoint
             notionalAsk == m.depth5AskVolume * m.bidAskMidpoint
             weakestDepth == Min(notionalBid, notionalAsk)
             minDepthNeeded == EXPECTED_TRADE_SIZE_USD * MIN_EXECUTION_MULTIPLIER * 100
         IN IF weakestDepth < minDepthNeeded THEN FALSE
            ELSE IF m.current1sVolumeSum < EXPECTED_TRADE_SIZE_USD * 100 THEN FALSE
            ELSE TRUE

\* volatility30s / Math.sqrt(365 * 24 * 60 * 60), in 1/100000000
InstantVol(m) == (m.volatility30s * 100) \div SqrtSecondsPerYear

\* In 1/100: the base multiplier 4.0 is 400.
getDynamicVolumeThreshold(m) ==
    IF m.lastPrice = 0 \/ m.volatility5m = 0 THEN 400
    ELSE LET regimeModifier == IF m.volatilityRatio > 1500 THEN 125
                               ELSE IF m.volatilityRatio < 800 THEN 75 ELSE 100
             volatilityFactor == 100000000 + (InstantVol(m) * 50 * regimeModifier) \div 100
             sessionFactor == IF m.cachedIsWeekend THEN 80
                              ELSE IF m.cachedHourOfDay >= 13 /\ m.cachedHourOfDay <= 17 THEN 150
                              ELSE IF m.cachedHourOfDay >= 0 /\ m.cachedHourOfDay < 7 THEN 75
                              ELSE 100
             dynamicThreshold == (4 * (volatilityFactor \div 10000) * sessionFactor) \div 10000
         IN Max(250, Min(2000, dynamicThreshold))

MaxVolByTier_Flat(tier) == 1500000

MaxVolByTier(tier) ==
    CASE tier = "mega" -> 500000 [] tier = "large" -> 800000 [] tier = "mid" -> 1200000
      [] tier = "small" -> 2000000 [] tier = "micro" -> 3000000 [] OTHER -> 1500000

\* The guards of checkSignal, each TRUE when its line returns null.
NoPriceOrBaseline(m) == m.lastPrice = 0 \/ m.ewma5mVolumeBaseline = 0
NoVolatility(m) == Len(m.returnHistory) < 30 \/ m.volatility30s = 0
LowDayVolume(m) ==
    IsFinite(m.ticker24hrVolumeUsdt) /\ m.ticker24hrVolumeUsdt < MIN_24H_VOLUME_USD * 100
InCooldown_Inclusive(m, now) == now - m.lastSignalTriggerTime <= SIGNAL_COOLDOWN_MS

InCooldown(m, now) == now - m.lastSignalTriggerTime < SIGNAL_COOLDOWN_MS
VolatilityOutOfRange(m) ==
    m.volatility5m > MaxVolByTier(m.marketCapTier) \/ m.volatility5m < 50000
BadQuotes(m) ==
    ~IsFinite(m.bestBid) \/ ~IsFinite(m.bestAsk) \/ m.bestBid <= 0 \/ m.bestAsk <= m.bestBid

\* (bestAsk - bestBid) / bestAsk, in micro
SpreadPct(m) == ((m.bestAsk - m.bestBid) * 1000000) \div m.bestAsk

\* spreadPct > 0.003, then spreadPct / (instantVol + 1e-4) > 3.0
WideSpread(m) ==
    \/ (m.bestAsk - m.bestBid) * MAX_BID_ASK_SPREAD_PCT[2] > MAX_BID_ASK_SPREAD_PCT[1] * m.bestAsk
    \/ SpreadPct(m) * 100 > 3 * (InstantVol(m) + 10000)

isVolumeSpike(m) ==
    LET dynThresh == getDynamicVolumeThreshold(m)
        floor == getAbsoluteVolumeFloor(m)
    IN /\ m.ewma1mVolumeBaseline > 0
       /\ m.ewma1sVolumeFast * 100 >= dynThresh * m.ewma1mVolumeBaseline
       /\ m.ewma5mVolumeBaseline > 0
       /\ m.ewma1mVolumeBaseline * MIN_VOLUME_SPIKE_RATIO_1M5M[2]
            >= MIN_VOLUME_SPIKE_RATIO_1M5M[1] * m.ewma5mVolumeBaseline
       /\ m.accelSigma > 0
       /\ m.volumeAccel * VOLUME_ACCEL_ZSCORE[2] >= VOLUME_ACCEL_ZSCORE[1] * m.accelSigma
       /\ IsFinite(floor) /\ m.current1sVolumeSum >= floor
       /\ m.current1sTradeCount >= MIN_TRADES_IN_1S

\* priceChangePct, in micro
PriceChangePct(m, priceLookback) == ((m.lastPrice - priceLookback) * 1000000) \div priceLookback

\* price momentum check: TRUE when one of its three lines returns null
NoPriceImpulse(m, now) ==
    LET priceLookback == getHistoricalPrice(m, now - PRICE_LOOKBACK_WINDOW_MS)
    IN \/ priceLookback = 0 \/ m.lastPrice <= priceLookback
       \/ ~(m.priceSlopeSigma > 0
             /\ m.priceSlope * PRICE_SLOPE_ZSCORE[2] >= PRICE_SLOPE_ZSCORE[1] * m.priceSlopeSigma)
       \/ ~(InstantVol(m) > 0
             /\ PriceChangePct(m, priceLookback) * 1000 >= 15 * InstantVol(m))

\* The synchronous part of checkSignal, up to the trigger: TRUE when no
\* guard returned null; m is the monitor after updateTimeCache.
Triggers(m, now) ==
    /\ ~NoPriceOrBaseline(m)
    /\ ~NoVolatility(m)
    /\ ~LowDayVolume(m)
    /\ hasSufficientLiquidity(m)
    /\ ~InCooldown(m, now)
    /\ ~VolatilityOutOfRange(m)
    /\ ~BadQuotes(m)
    /\ ~WideSpread(m)
    /\ isVolumeSpike(m)
    /\ ~NoPriceImpulse(m, now)

\* symbol.replace(/[^A-Za-z0-9]/g, "").toUpperCase()
NormalizedSymbol(symbol) ==
    CASE symbol = "BTC_USDT" -> "BTCUSDT" [] symbol = "ETH_USDT" -> "ETHUSDT" [] OTHER -> symbol

\* The vector of a trigger: the fields the follow-up and the guards read.
SignalVector(m, now) ==
    [ symbol |-> NormalizedSymbol(m.symbol), signalTimestampMs |-> now,
      triggerPrice |-> m.lastPrice,
      current1sVolumeUsdt |-> m.current1sVolumeSum,
      volatility30s |-> m.volatility30s, volatility5m |-> m.volatility5m,
      spreadPct |-> SpreadPct(m),
      depth5BidVolume |-> m.depth5BidVolume, depth5AskVolume |-> m.depth5AskVolume,
      ticker24hrVolumeUsdt |-> m.ticker24hrVolumeUsdt ]

checkSignal_NoStamp(m, now) == updateTimeCache(m, now)

\* The monitor after the synchronous part of checkSignal.
checkSignal(m, now) ==
    LET m1 == updateTimeCache(m, now)
    IN IF Triggers(m1, now) THEN [m1 EXCEPT !.lastSignalTriggerTime = now] ELSE m1

\* ------------------------------------------------------------ priceTape
Null == 0 - 1

\* constructor of BarBuilder
NewBarBuilder ==
    [secBucketTS |-> Null, open |-> 0, high |-> 0, low |-> 0, close |-> 0, volume |-> 0]

\* redis.zadd(key, score, member) on the sorted set of one key: a member
\* is held once, and adding it again moves it to the new score.
ZAdd(zset, score, member) ==
    {e \in zset : e.member # member} \cup {[member |-> member, score |-> score]}

\* The member is the text `${open},${high},${low},${close},${volume}`.
pushBarToRedis(zset, secBucket, open, high, low, close, volume) ==
    ZAdd(zset, secBucket, <<open, high, low, close, volume>>)

flushCurrentBar(b, zset) ==
    pushBarToRedis(zset, b.secBucketTS, b.open, b.high, b.low, b.close, b.volume)

startNewBar(b, secBucket, price, volumeUSDT) ==
    [secBucketTS |-> secBucket, open |-> price, high |-> price, low |-> price,
     close |-> price, volume |-> volumeUSDT]

\* for (s = _secBucketTS + 1; s < secBucket; s++) _pushBarToRedis(s, close x 4, 0)
RECURSIVE FillGap(_, _, _, _)
FillGap(zset, s, secBucket, close) ==
    IF s >= secBucket THEN zset
    ELSE FillGap(pushBarToRedis(zset, s, close, close, close, close, 0), s + 1, secBucket, close)

onTrade_KeepsLow(b, zset, price, volumeUSDT, tsMs) ==
    LET secBucket == FloorSeconds(tsMs)
    IN IF b.secBucketTS = Null
       THEN [builder |-> startNewBar(b, secBucket, price, volumeUSDT), zset |-> zset]
       ELSE IF secBucket # NaN /\ secBucket = b.secBucketTS
       THEN [builder |-> [b EXCEPT !.high = MathMax(b.high, price),
                                   !.close = price, !.volume = Plus(b.volume, volumeUSDT)],
             zset |-> zset]
       ELSE IF secBucket # NaN /\ b.secBucketTS # NaN /\ secBucket > b.secBucketTS
       THEN [builder |-> startNewBar(b, secBucket, price, volumeUSDT),
             zset |-> FillGap(flushCurrentBar(b, zset), b.secBucketTS + 1, secBucket, b.close)]
       ELSE [builder |-> b, zset |-> zset]

\* onTrade that starts a new bar at every trade of another second, an
\* earlier one included.
onTrade_RestartsOnLate(b, zset, price, volumeUSDT, tsMs) ==
    LET secBucket == FloorSeconds(tsMs)
    IN IF b.secBucketTS = Null
       THEN [builder |-> startNewBar(b, secBucket, price, volumeUSDT), zset |-> zset]
       ELSE IF secBucket # NaN /\ secBucket = b.secBucketTS
       THEN [builder |-> [b EXCEPT !.high = MathMax(b.high, price),
                                   !.low = MathMin(b.low, price),
                                   !.close = price, !.volume = Plus(b.volume, volumeUSDT)],
             zset |-> zset]
       ELSE [builder |-> startNewBar(b, secBucket, price, volumeUSDT),
             zset |-> FillGap(flushCurrentBar(b, zset), b.secBucketTS + 1, secBucket, b.close)]

\* BarBuilder.onTrade: the builder and the sorted set of its key afterwards.
onTrade(b, zset, price, volumeUSDT, tsMs) ==
    LET secBucket == FloorSeconds(tsMs)
    IN IF b.secBucketTS = Null
       THEN [builder |-> startNewBar(b, secBucket, price, volumeUSDT), zset |-> zset]
       ELSE IF secBucket # NaN /\ secBucket = b.secBucketTS
       THEN [builder |-> [b EXCEPT !.high = MathMax(b.high, price),
                                   !.low = MathMin(b.low, price),
                                   !.close = price, !.volume = Plus(b.volume, volumeUSDT)],
             zset |-> zset]
       ELSE IF secBucket # NaN /\ b.secBucketTS # NaN /\ secBucket > b.secBucketTS
       THEN [builder |-> startNewBar(b, secBucket, price, volumeUSDT),
             zset |-> FillGap(flushCurrentBar(b, zset), b.secBucketTS + 1, secBucket, b.close)]
       ELSE [builder |-> b, zset |-> zset]

\* BarBuilder.flush
flush(b, zset) == IF b.secBucketTS # Null THEN flushCurrentBar(b, zset) ELSE zset

\* The names of the pairs of a long selection, as the streams and as the
\* monitors have them.
LowerPairName(k) ==
    CASE k = 1 -> "btc_usdt" [] k = 2 -> "eth_usdt" [] OTHER -> "pair" \o ToString(k) \o "_usdt"
UpperPairName(k) ==
    CASE k = 1 -> "BTC_USDT" [] k = 2 -> "ETH_USDT" [] OTHER -> "PAIR" \o ToString(k) \o "_USDT"

\* String.prototype.toUpperCase and toLowerCase on the names that occur
ToUpperCase(text) ==
    CASE text = "doge_usdt" -> "DOGE_USDT"
      [] \E k \in 1..99 : text = LowerPairName(k) ->
            UpperPairName(CHOOSE k \in 1..99 : text = LowerPairName(k))
      [] OTHER -> text

ToLowerCase(text) ==
    CASE text = "aggTrade" -> "aggtrade" [] text = "AGGTRADE" -> "aggtrade"
      [] text = "bookTicker" -> "bookticker" [] text = "Ticker" -> "ticker"
      [] OTHER -> text

\* redis.zrangebyscore(key, min, max, "WITHSCORES") on the sorted set of
\* the key: the entries with min <= score <= max by ascending score, and
\* the entries of one score in the byte order of their members. A member
\* is compared number by number as texts of decimal digits: a text that is
\* a prefix of the other comes first ("," sorts below every digit), and
\* "NaN" comes after every digit.
ZRangeByScore(zset, min, max) ==
    LET RECURSIVE Digits(_)
        Digits(n) == IF n < 10 THEN <<n>> ELSE Append(Digits(n \div 10), n % 10)
        RECURSIVE DigitsBefore(_, _)
        DigitsBefore(a, b) ==
            IF a = <<>> THEN b # <<>>
            ELSE IF b = <<>> THEN FALSE
            ELSE IF Head(a) # Head(b) THEN Head(a) < Head(b)
            ELSE DigitsBefore(Tail(a), Tail(b))
        FieldBefore(a, b) ==
            IF a = NaN THEN FALSE
            ELSE IF b = NaN THEN TRUE
            ELSE DigitsBefore(Digits(a), Digits(b))
        RECURSIVE MemberBefore(_, _)
        MemberBefore(a, b) ==
            IF a = <<>> THEN FALSE
            ELSE IF Head(a) # Head(b) THEN FieldBefore(Head(a), Head(b))
            ELSE MemberBefore(Tail(a), Tail(b))
        EntryBefore(a, b) ==
            a.score < b.score \/ (a.score = b.score /\ MemberBefore(a.member, b.member))
        RECURSIVE SortEntries(_)
        SortEntries(entries) ==
            IF entries = {} THEN <<>>
            ELSE LET first == CHOOSE e \in entries :
                                 \A o \in entries \ {e} : EntryBefore(e, o)
                 IN <<first>> \o SortEntries(entries \ {first})
        \* the entries with lo <= score <= hi in order: the lower half of
        \* the scores before the upper half
        RECURSIVE SortScores(_, _, _)
        SortScores(entries, lo, hi) ==
            IF entries = {} THEN <<>>
            ELSE IF lo >= hi \/ Cardinality(entries) = 1 THEN SortEntries(entries)
            ELSE LET mid == (lo + hi) \div 2
                 IN SortScores({e \in entries : e.score <= mid}, lo, mid)
                    \o SortScores({e \in entries : e.score > mid}, mid + 1, hi)
    IN SortScores({e \in zset : min <= e.score /\ e.score <= max}, min, max)

getSecBars_EndExcluded(store, pair, startMs, endMs) ==
    LET key == ToUpperCase(pair)
        raw == ZRangeByScore(IF key \in DOMAIN store THEN store[key] ELSE {},
                             startMs \div 1000, (endMs \div 1000) - 1)
    IN [i \in 1..Len(raw) |->
          [t |-> raw[i].score * 1000, open |-> raw[i].member[1], high |-> raw[i].member[2],
           low |-> raw[i].member[3], close |-> raw[i].member[4], volume |-> raw[i].member[5]]]

\* BarBuilder.getSecBars(redis, pair, startMs, endMs) when the read
\* succeeds: store holds the sorted set of every key, a key that does not
\* exist reads as empty, and each member is split into its five numbers.
getSecBars(store, pair, startMs, endMs) ==
    LET key == ToUpperCase(pair)
        startScore == startMs \div 1000
        endScore == endMs \div 1000
        raw == ZRangeByScore(IF key \in DOMAIN store THEN store[key] ELSE {},
                             startScore, endScore)
    IN [i \in 1..Len(raw) |->
          [t |-> raw[i].score * 1000, open |-> raw[i].member[1], high |-> raw[i].member[2],
           low |-> raw[i].member[3], close |-> raw[i].member[4], volume |-> raw[i].member[5]]]

\* ----------------------------------------------------------- workerPrice
WINDOW_MS == 30 * 60 * 1000

\* The grid of the trajectory, in seconds after the signal.
offsets ==
    [i \in 1..30 |-> i] \o <<45, 60>> \o [i \in 1..18 |-> 60 + 30 * i]
    \o [i \in 1..20 |-> 600 + 60 * i]

\* The log returns of consecutive closes whose earlier close is positive.
\* (The loop from i on, taken half by half.)
CloseReturns(bars, i) ==
    LET RECURSIVE Between(_, _)
        Between(lo, hi) ==
            IF lo > hi THEN <<>>
            ELSE IF lo = hi
                 THEN (IF bars[lo - 1].close > 0
                       THEN <<LogReturn(bars[lo].close, bars[lo - 1].close)>> ELSE <<>>)
            ELSE LET mid == (lo + hi) \div 2
                 IN Between(lo, mid) \o Between(mid + 1, hi)
    IN Between(i, Len(bars))

\* realisedSigma(bars): null, or the population deviation of the returns
realisedSigma(bars) ==
    IF Len(bars) < 2 THEN Null
    ELSE LET rets == CloseReturns(bars, 2)
         IN IF Len(rets) = 0 THEN Null ELSE PopulationSigma(rets)

NearestBarFrom_NoFallback(bars, i, targetTime) ==
    LET found == {j \in i..Len(bars) : bars[j].t >= targetTime}
    IN IF found = {} THEN 0 ELSE CHOOSE j \in found : \A k \in found : j <= k

\* The loop of lines 218-223 from index i on and the fallback of lines
\* 225-227: the first bar at or after targetTime, else the last bar; 0
\* when there is no bar.
NearestBarFrom(bars, i, targetTime) ==
    LET found == {j \in i..Len(bars) : bars[j].t >= targetTime}
    IN IF found = {} THEN Len(bars) ELSE CHOOSE j \in found : \A k \in found : j <= k

priceRows_Empty(bars, startMs) == <<>>

\* offsets.map(sec => ...): one row per offset
priceRows(bars, startMs) ==
    [k \in 1..Len(offsets) |->
        LET nearestBar == NearestBarFrom(bars, 1, startMs + offsets[k] * 1000)
        IN [t_offset_s |-> offsets[k],
            price |-> IF nearestBar # 0 THEN bars[nearestBar].close ELSE Null,
            volume |-> IF nearestBar # 0 THEN bars[nearestBar].volume ELSE 0]]

\* The document processJob inserts for a job, given the bars it read.
PriceDocument(data, bars) ==
    [signal_id |-> data.id, symbol |-> NormalizedSymbol(data.symbol), exchange |-> "gate",
     sigma30m |-> realisedSigma(bars), prices |-> priceRows(bars, data.timestamp)]

\* ------------------------------------------------------------ workerBook
\* restRequest's default for maxRetries.
maxRetries == 5

BookEntry_FirstOffset(snapshot, tOffset, ts) ==
    LET bidSum == SumSeq([i \in 1..Min(5, Len(snapshot.bids)) |-> snapshot.bids[i][2]])
        askSum == SumSeq([i \in 1..Min(5, Len(snapshot.asks)) |-> snapshot.asks[i][2]])
        bestBid == IF Len(snapshot.bids) > 0 THEN snapshot.bids[1][1] ELSE 0
        bestAsk == IF Len(snapshot.asks) > 0 THEN snapshot.asks[1][1] ELSE 0
        midPrice == (bestBid + bestAsk) \div 2
        bidSumUsdt == bidSum * midPrice
        askSumUsdt == askSum * midPrice
        totalUsdt == bidSumUsdt + askSumUsdt
    IN [t_offset_s |-> 3,
        ts |-> ts,
        bid_sum |-> bidSum,
        ask_sum |-> askSum,
        imbalance |-> IF bidSum + askSum = 0 THEN 0
                      ELSE ((bidSum - askSum) * 1000000) \div (bidSum + askSum),
        bid_sum_usdt |-> bidSumUsdt,
        ask_sum_usdt |-> askSumUsdt,
        total_liquidity_usdt |-> totalUsdt,
        imbalance_usdt |-> IF totalUsdt = 0 THEN 0
                           ELSE ((bidSumUsdt - askSumUsdt) * 1000000) \div totalUsdt,
        mid_price |-> midPrice,
        best_bid |-> bestBid,
        best_ask |-> bestAsk,
        spread_bps |-> IF bestAsk = 0 THEN NaN
                       ELSE ((bestAsk - bestBid) * 10000) \div bestAsk]

\* The entry the gate_order handler pushes for a depth snapshot read at
\* offset tOffset, at time ts. Prices are in cents and quantities in
\* units; the ratios are in micro, rounded down, and a quotient by 0 that
\* is not finite is NaN (the 1e-8 of the imbalances only decides the
\* quotient of an empty book, which is 0).
BookEntry(snapshot, tOffset, ts) ==
    LET bidSum == SumSeq([i \in 1..Min(5, Len(snapshot.bids)) |-> snapshot.bids[i][2]])
        askSum == SumSeq([i \in 1..Min(5, Len(snapshot.asks)) |-> snapshot.asks[i][2]])
        bestBid == IF Len(snapshot.bids) > 0 THEN snapshot.bids[1][1] ELSE 0
        bestAsk == IF Len(snapshot.asks) > 0 THEN snapshot.asks[1][1] ELSE 0
        midPrice == (bestBid + bestAsk) \div 2
        bidSumUsdt == bidSum * midPrice
        askSumUsdt == askSum * midPrice
        totalUsdt == bidSumUsdt + askSumUsdt
    IN [t_offset_s |-> tOffset,
        ts |-> ts,
        bid_sum |-> bidSum,
        ask_sum |-> askSum,
        imbalance |-> IF bidSum + askSum = 0 THEN 0
                      ELSE ((bidSum - askSum) * 1000000) \div (bidSum + askSum),
        bid_sum_usdt |-> bidSumUsdt,
        ask_sum_usdt |-> askSumUsdt,
        total_liquidity_usdt |-> totalUsdt,
        imbalance_usdt |-> IF totalUsdt = 0 THEN 0
                           ELSE ((bidSumUsdt - askSumUsdt) * 1000000) \div totalUsdt,
        mid_price |-> midPrice,
        best_bid |-> bestBid,
        best_ask |-> bestAsk,
        spread_bps |-> IF bestAsk = 0 THEN NaN
                       ELSE ((bestAsk - bestBid) * 10000) \div bestAsk]

\* mongo.orderbooks.updateOne({signal_id}, {$set: {symbol}, $push:
\* {snapshots: entry}}, {upsert: true}) as one step of the store: the
\* document of the signal id gets the symbol and the entry at the end of
\* its snapshots, and is created with them when there is none.
updateOne(collection, id, symbol, entry) ==
    IF \E k \in 1..Len(collection) : collection[k].signal_id = id
    THEN [k \in 1..Len(collection) |->
            IF collection[k].signal_id = id
            THEN [collection[k] EXCEPT !.symbol = symbol, !.snapshots = Append(@, entry)]
            ELSE collection[k]]
    ELSE Append(collection, [signal_id |-> id, symbol |-> symbol, snapshots |-> <<entry>>])

\* ------------------------------------------------------------ websockets
MAX_TOPICS_PER_WS == 180
RECONNECT_MS == 2000

\* The null of mapChannelToTopic, written as a topic of no channel.
NoTopic == [channel |-> "", payload |-> <<>>]

\* mapChannelToTopic(ch): a channel is the texts between its "@"; one
\* without "@" or with an unknown stream maps to null.
mapChannelToTopic(ch) ==
    IF Len(ch) < 2 THEN NoTopic
    ELSE LET symbol == ToUpperCase(ch[1])
             stream == [i \in 1..(Len(ch) - 1) |-> ToLowerCase(ch[i + 1])]
         IN CASE stream = <<"aggtrade">> -> [channel |-> "spot.trades", payload |-> <<symbol>>]
              [] stream = <<"ticker">> -> [channel |-> "spot.tickers", payload |-> <<symbol>>]
              [] stream = <<"bookticker">> ->
                    [channel |-> "spot.book_ticker", payload |-> <<symbol>>]
              [] stream = <<"depth5", "100ms">> ->
                    [channel |-> "spot.order_book", payload |-> <<symbol, "5", "100ms">>]
              [] OTHER -> NoTopic

\* binanceStyleChannels.map(mapChannelToTopic).filter(Boolean)
TopicsOf(channels) ==
    SelectSeq([i \in 1..Len(channels) |-> mapChannelToTopic(channels[i])],
              LAMBDA t : t # NoTopic)

\* Websockets._spawnSocket(topicChunk): the tracked sockets afterwards. A
\* socket has its chunk, its readyState, whether its listeners are on, and
\* whether its ping interval is set.
spawnSocket(tracked, topicChunk) ==
    Append(tracked, [topicChunk |-> topicChunk, readyState |-> "CONNECTING",
                     listeners |-> TRUE, ping |-> FALSE])

RECURSIVE SpawnChunks_Overlapping(_, _, _)
SpawnChunks_Overlapping(tracked, topics, i) ==
    IF i > Len(topics) THEN tracked
    ELSE SpawnChunks_Overlapping(
             spawnSocket(tracked, SubSeq(topics, i, Min(i + MAX_TOPICS_PER_WS, Len(topics)))),
             topics, i + MAX_TOPICS_PER_WS)

\* The loop of connect from topic i on (i counts from 1): a socket for
\* topics.slice(i, i + MAX_TOPICS_PER_WS), and on with the next chunk.
RECURSIVE SpawnChunks(_, _, _)
SpawnChunks(tracked, topics, i) ==
    IF i > Len(topics) THEN tracked
    ELSE SpawnChunks(
             spawnSocket(tracked,
                         SubSeq(topics, i, Min(i + MAX_TOPICS_PER_WS - 1, Len(topics)))),
             topics, i + MAX_TOPICS_PER_WS)

\* Websockets.connect(binanceStyleChannels): the tracked sockets after the
\* call. disconnect() has emptied wsArr before anything is spawned.
connect(channels) == SpawnChunks(<<>>, TopicsOf(channels), 1)

\* ------------------------------------------------------------- the state
VARIABLES
    now,         \* Date.now() of the last tick
    mon,         \* symbolMonitors: symbol -> monitor
    tasks,       \* the checkSignal calls that triggered, in trigger order
    signals,     \* mongo.signals, in insertion order
    priceQueue,  \* the jobs added to gate_price
    orderQueue,  \* the jobs added to gate_order
    nextId,      \* the next insertedId
    alive,       \* FALSE once the process has exited
    builders,    \* _builders: pair -> bar builder
    secbar,      \* the sorted sets gate:secbar:<pair>
    step,        \* the kind of the last step taken
    ticks,       \* the number of ticks run
    events,      \* the number of stream events delivered
    failures,    \* the number of store and queue calls and of sockets that failed
    history,     \* the calls made from outside so far, with what they returned
    circular,    \* a CircularBuffer on its own: its capacity and its array
    interval,    \* TRUE while the interval timer of the tick is armed
    wsArr,       \* Websockets.wsArr: the sockets the transport tracks
    timers,      \* the pending reconnect timeouts: their topic chunk and delay
    stopped,     \* whether stop() has been called, and the ticks run by then
    jobs,        \* the jobs of a queue as their worker sees them: state and what was read
    priceDocs,   \* mongo.prices, in insertion order
    orderbooks   \* mongo.orderbooks, in insertion order

vars == <<now, mon, tasks, signals, priceQueue, orderQueue, nextId, alive, builders, secbar, step,
          ticks, events, failures, history, circular, interval, wsArr, timers, stopped, jobs,
          priceDocs, orderbooks>>

\* ----------------------------------------------------------- the bounds
MaxTicks == 2
MaxEvents == 2
MaxFailures == 1

\* The monitored pairs, in the order of the map.
SymbolOrder == <<"BTC_USDT">>
Symbols == {SymbolOrder[i] : i \in 1..Len(SymbolOrder)}

\* 08:00 UTC of a Thursday
StartTime == 8 * 3600000

\* The time between two ticks: the period, and delays of the timer.
TickDelays == {CHECK_SIGNAL_INTERVAL_MS - 1, CHECK_SIGNAL_INTERVAL_MS, CHECK_SIGNAL_INTERVAL_MS + 1}

\* Market capitalisations of the selected pairs, in millions (mid, large).
MarketCaps == {700, 6000}

\* The size of the log returns of the warm-up, in micro.
ReturnSizes == {100, 200}

\* --------------------------------------------------------- initial state
\* A monitor that has run for at least 30 s and whose last tick was at
\* StartTime: quiet prices around 100.00 with returns of the given size,
\* a rising 1 s volume, and five trades at 100.03 that arrived since.
WarmTrades ==
    <<[price |-> 10000, quantity |-> 1, eventTime |-> StartTime - 2000, isBuyerMaker |-> TRUE],
      [price |-> 10000, quantity |-> 1, eventTime |-> StartTime - 900, isBuyerMaker |-> FALSE]>>
    \o [i \in 1..5 |-> [price |-> 10003, quantity |-> 1, eventTime |-> StartTime + 100,
                        isBuyerMaker |-> FALSE]]

WarmMonitor(symbol, marketCapTier, returnSize) ==
    LET returns == [i \in 1..30 |->
                      [time |-> StartTime - (30 - i) * 1000,
                       return |-> IF i % 2 = 1 THEN returnSize ELSE 0 - returnSize]]
        vol == calculateAnnualizedVolatility(ReturnsAfter(returns, StartTime - 30000))
        accel == [i \in 1..59 |-> IF i % 2 = 1 THEN 100 ELSE 0 - 100]
    IN [NewMonitor(symbol, marketCapTier) EXCEPT
          !.accelHistory = accel, !.accelSigma = PopulationSigma(accel),
          !.priceSlopeHist = [i \in 1..39 |-> 0],
          !.cachedDayOfWeek = UTCDay(StartTime), !.cachedHourOfDay = UTCHours(StartTime),
          !.lastTimeCacheUpdate = StartTime - 54000,
          !.aggTrades = WarmTrades,
          !.bestBid = 10000, !.bestAsk = 10002, !.bidAskMidpoint = 10001,
          !.current1sVolumeSum = 10000, !.current1sTradeCount = 1,
          !.current1sTakerBuyVolume = 10000,
          !.ewma1sVolumeFast = 15000, !.prevEwma1s = 15000, !.volumeAccel = 0 - 100,
          !.ewma1mVolumeBaseline = 4000, !.ewma5mVolumeBaseline = 2000,
          !.lastPrice = 10003,
          !.priceBuckets = [i \in 1..PriceBucketCapacity |->
                              [time |-> StartTime - (PriceBucketCapacity - i) * 200,
                               price |-> 10000]],
          !.lastPriceBucketTime = StartTime,
          !.returnHistory = returns, !.lastReturnCalcTime = StartTime,
          !.lastPriceForReturn = 10000,
          !.volatility30s = vol, !.volatility5m = vol, !.volatilityRatio = 1000,
          !.depth5BidVolume = 30, !.depth5AskVolume = 30,
          !.rsiPriceHistory = [i \in 1..20 |-> 10000],
          !.emaFast = Scaled(10000), !.emaSlow = Scaled(10000),
          !.ema9 = Scaled(10000), !.ema21 = Scaled(10000), !.ema50 = Scaled(10000),
          !.ticker24hrVolumeUsdt = 500000000]

\* The tape after the trades of a ring, from a new builder.
RECURSIVE TapeAfter(_, _)
TapeAfter(trades, n) ==
    IF n = 0 THEN [builder |-> NewBarBuilder, zset |-> {}]
    ELSE LET before == TapeAfter(trades, n - 1)
             t == trades[n]
         IN onTrade(before.builder, before.zset, t.price, t.quantity * t.price, t.eventTime)

\* The trigger times the monitor starts with: never, or most of a cooldown
\* before the start.
LastTriggers == {0, StartTime - (SIGNAL_COOLDOWN_MS - CHECK_SIGNAL_INTERVAL_MS)}

\* The calls of checkSignal that triggered at those times: each is still
\* waiting for insertOne.
RECURSIVE EarlierTasks(_, _)
EarlierTasks(i, monitors) ==
    IF i > Len(SymbolOrder) THEN <<>>
    ELSE LET m == monitors[SymbolOrder[i]]
         IN (IF m.lastSignalTriggerTime = 0 THEN <<>>
             ELSE <<[symbol |-> m.symbol,
                     vector |-> SignalVector(m, m.lastSignalTriggerTime),
                     pc |-> "insertOne", insertedId |-> Null, offset |-> 0, attempted |-> <<>>]>>)
            \o EarlierTasks(i + 1, monitors)

Init ==
    /\ now = StartTime
    /\ mon \in [Symbols -> UNION {{[WarmMonitor(s, classifyTier(cap), r)
                                      EXCEPT !.lastSignalTriggerTime = last] :
                                     cap \in MarketCaps, r \in ReturnSizes,
                                     last \in LastTriggers} : s \in Symbols}]
    /\ \A s \in Symbols : mon[s].symbol = s
    /\ tasks = EarlierTasks(1, mon)
    /\ signals = <<>>
    /\ priceQueue = <<>>
    /\ orderQueue = <<>>
    /\ nextId = 1
    /\ alive = TRUE
    /\ builders = [s \in Symbols |-> TapeAfter(WarmTrades, Len(WarmTrades)).builder]
    /\ secbar = [s \in Symbols |-> TapeAfter(WarmTrades, Len(WarmTrades)).zset]
    /\ step = "init"
    /\ ticks = 0
    /\ events = 0
    /\ failures = 0
    /\ orderbooks = <<>>
    /\ priceDocs = <<>>
    /\ jobs = <<>>
    /\ stopped = [requested |-> FALSE, ticks |-> 0]
    /\ timers = <<>>
    /\ wsArr = <<>>
    /\ interval = TRUE
    /\ circular = NewCircularBuffer(1)
    /\ history = <<>>

\* ---------------------------------------------------------------- inputs
\* aggTrade data {p, q, E, m}: a trade above the last prices, stamped at
\* the time of the last tick.
TradeInputs == {[p |-> 10006, q |-> 1, E |-> now, m |-> FALSE]}

\* bookTicker data {b, a}: good, wide (spread 0.4975 %), crossed, unparsable.
BookInputs ==
    {[b |-> 10000, a |-> 10002], [b |-> 10000, a |-> 10050],
     [b |-> 10010, a |-> 10002], [b |-> NaN, a |-> NaN]}

\* depth data: the quantities of the levels; 30 and 50, 10 and 30 (the bid
\* side is then worth 1000), and a snapshot with no bids.
DepthInputs ==
    {[bids |-> <<10, 10, 10>>, asks |-> <<10, 10, 10, 10, 10, 10>>],
     [bids |-> <<10>>, asks |-> <<30>>],
     [bids |-> <<>>, asks |-> <<30>>]}

\* ticker data {q}: 5 000 000, one cent below 1 000 000, unparsable.
TickerInputs == {[q |-> 500000000], [q |-> 99999999], [q |-> NaN]}

\* --------------------------------------------------------------- actions
TickMonitor_GateFirst(m, t) == performPeriodicCalculations(checkSignal(m, t), t)

\* The monitor of one symbol after one pass of the interval callback.
TickMonitor(m, t) == checkSignal(performPeriodicCalculations(m, t), t)

\* TRUE when that pass triggered: the vector is built from the monitor at
\* the trigger, and the call then waits for insertOne.
TickTriggers(m, t) == Triggers(updateTimeCache(performPeriodicCalculations(m, t), t), t)

NewTask(m, t) ==
    [symbol |-> m.symbol,
     vector |-> SignalVector(updateTimeCache(performPeriodicCalculations(m, t), t), t),
     pc |-> "insertOne", insertedId |-> Null, offset |-> 0, attempted |-> <<>>]

\* The keys of symbolMonitors in the order of the map, which is the order
\* the pairs were selected in.
PairOrder == <<"BTC_USDT", "ETH_USDT">>
MapOrder == SelectSeq(PairOrder, LAMBDA s : s \in DOMAIN mon)

\* The calls that triggered in one tick, in the order of the map.
RECURSIVE TriggeredFrom(_, _)
TriggeredFrom(i, t) ==
    IF i > Len(MapOrder) THEN <<>>
    ELSE (IF TickTriggers(mon[MapOrder[i]], t)
          THEN <<NewTask(mon[MapOrder[i]], t)>> ELSE <<>>)
         \o TriggeredFrom(i + 1, t)

\* setInterval callback: performPeriodicCalculations, then checkSignal up
\* to its first await, for every monitor.
Tick(d) ==
    /\ alive /\ interval /\ ticks < MaxTicks
    /\ now' = now + d
    /\ mon' = [s \in DOMAIN mon |-> TickMonitor(mon[s], now')]
    /\ tasks' = tasks \o TriggeredFrom(1, now')
    /\ ticks' = ticks + 1
    /\ step' = "tick"
    /\ UNCHANGED <<orderbooks, priceDocs, jobs, stopped, timers, wsArr, interval, circular,
                   history, signals, priceQueue, orderQueue, nextId, alive, builders, secbar,
                   events, failures>>

\* handleTradeTick(pair, price, volumeUSDT, tsMs)
handleTradeTick(pair, price, volumeUSDT, tsMs) ==
    LET after == onTrade(builders[pair], secbar[pair], price, volumeUSDT, tsMs)
    IN /\ builders' = [builders EXCEPT ![pair] = after.builder]
       /\ secbar' = [secbar EXCEPT ![pair] = after.zset]

\* processCombinedStreamData, case "aggTrade"
OnAggTrade(symbol, data) ==
    /\ alive /\ events < MaxEvents
    /\ mon' = [mon EXCEPT ![symbol] = addAggTrade(mon[symbol], data)]
    /\ handleTradeTick(symbol, data.p, data.q * data.p, data.E)
    /\ events' = events + 1
    /\ step' = "event"
    /\ UNCHANGED <<orderbooks, priceDocs, jobs, stopped, timers, wsArr, interval, circular,
                   history, now, tasks, signals, priceQueue, orderQueue, nextId, alive, ticks,
                   failures>>

\* processCombinedStreamData, case "ticker"
OnTicker(symbol, data) ==
    /\ alive /\ events < MaxEvents
    /\ mon' = [mon EXCEPT ![symbol] = applyTickerUpdate(mon[symbol], data)]
    /\ events' = events + 1
    /\ step' = "event"
    /\ UNCHANGED <<orderbooks, priceDocs, jobs, stopped, timers, wsArr, interval, circular,
                   history, now, tasks, signals, priceQueue, orderQueue, nextId, alive,
                   builders, secbar, ticks, failures>>

\* processCombinedStreamData, case "bookTicker"
OnBookTicker(symbol, data) ==
    /\ alive /\ events < MaxEvents
    /\ mon' = [mon EXCEPT ![symbol] = applyBookTickerUpdate(mon[symbol], data)]
    /\ events' = events + 1
    /\ step' = "event"
    /\ UNCHANGED <<orderbooks, priceDocs, jobs, stopped, timers, wsArr, interval, circular,
                   history, now, tasks, signals, priceQueue, orderQueue, nextId, alive,
                   builders, secbar, ticks, failures>>

\* processCombinedStreamData, case "depth5@100ms"
OnDepth(symbol, data) ==
    /\ alive /\ events < MaxEvents
    /\ mon' = [mon EXCEPT ![symbol] = updateDepthSnapshot(mon[symbol], data)]
    /\ events' = events + 1
    /\ step' = "event"
    /\ UNCHANGED <<orderbooks, priceDocs, jobs, stopped, timers, wsArr, interval, circular,
                   history, now, tasks, signals, priceQueue, orderQueue, nextId, alive,
                   builders, secbar, ticks, failures>>

\* The options of every job.
JobOpts(delay) == [removeOnComplete |-> TRUE, removeOnFail |-> TRUE, delay |-> delay]

OrderOffsets_Two == <<3, 10>>

\* The offsets of the orderbook jobs.
OrderOffsets == <<3, 10, 30>>

\* The call a task is waiting for: insertOne, the price job, or the
\* orderbook job of an offset.
Awaited(task) ==
    [call |-> task.pc,
     tOffset |-> IF task.pc = "orderQueue.add" THEN OrderOffsets[task.offset] ELSE 0]

\* An awaited call rejects: checkSignal rejects with it, and nothing
\* handles the rejection, which ends the process or not, as the runtime is
\* configured.
Rejects(k) ==
    /\ failures < MaxFailures
    /\ tasks' = [tasks EXCEPT ![k].pc = "rejected",
                              ![k].attempted = Append(@, Awaited(tasks[k]))]
    /\ failures' = failures + 1
    /\ alive' \in BOOLEAN
    /\ step' = "io"

InsertOneResolves_StampsAfter(k) ==
    /\ alive /\ tasks[k].pc = "insertOne"
    /\ signals' = Append(signals, [id |-> nextId, vector |-> tasks[k].vector])
    /\ nextId' = nextId + 1
    /\ tasks' = [tasks EXCEPT ![k].pc = "priceQueue.add", ![k].insertedId = nextId,
                              ![k].attempted = Append(@, Awaited(tasks[k]))]
    /\ mon' = [mon EXCEPT ![tasks[k].symbol].lastSignalTriggerTime = now]
    /\ step' = "io"
    /\ UNCHANGED <<orderbooks, priceDocs, jobs, stopped, timers, wsArr, interval, circular,
                   history, now, priceQueue, orderQueue, alive, builders, secbar, ticks,
                   events, failures>>

\* await mongo.signals.insertOne(vector) resolves
InsertOneResolves(k) ==
    /\ alive /\ tasks[k].pc = "insertOne"
    /\ signals' = Append(signals, [id |-> nextId, vector |-> tasks[k].vector])
    /\ nextId' = nextId + 1
    /\ tasks' = [tasks EXCEPT ![k].pc = "priceQueue.add", ![k].insertedId = nextId,
                              ![k].attempted = Append(@, Awaited(tasks[k]))]
    /\ step' = "io"
    /\ UNCHANGED <<orderbooks, priceDocs, jobs, stopped, timers, wsArr, interval, circular,
                   history, now, mon, priceQueue, orderQueue, alive, builders, secbar, ticks,
                   events, failures>>

InsertOneRejects_Continues(k) ==
    /\ alive /\ tasks[k].pc = "insertOne" /\ failures < MaxFailures
    /\ tasks' = [tasks EXCEPT ![k].pc = "priceQueue.add",
                              ![k].attempted = Append(@, Awaited(tasks[k]))]
    /\ failures' = failures + 1
    /\ step' = "io"
    /\ UNCHANGED <<orderbooks, priceDocs, jobs, stopped, timers, wsArr, interval, circular,
                   history, now, mon, signals, priceQueue, orderQueue, nextId, alive, builders,
                   secbar, ticks, events>>

\* await mongo.signals.insertOne(vector) rejects
InsertOneRejects(k) ==
    /\ alive /\ tasks[k].pc = "insertOne"
    /\ Rejects(k)
    /\ UNCHANGED <<orderbooks, priceDocs, jobs, stopped, timers, wsArr, interval, circular,
                   history, now, mon, signals, priceQueue, orderQueue, nextId, builders,
                   secbar, ticks, events>>

\* await priceQueue.add(...) resolves
PriceAddResolves(k) ==
    /\ alive /\ tasks[k].pc = "priceQueue.add"
    /\ priceQueue' = Append(priceQueue,
                            [name |-> "gate_price",
                             data |-> [id |-> tasks[k].insertedId, symbol |-> tasks[k].symbol,
                                       timestamp |-> tasks[k].vector.signalTimestampMs],
                             opts |-> JobOpts(31 * 60 * 1000)])
    /\ tasks' = [tasks EXCEPT ![k].pc = "orderQueue.add", ![k].offset = 1,
                              ![k].attempted = Append(@, Awaited(tasks[k]))]
    /\ step' = "io"
    /\ UNCHANGED <<orderbooks, priceDocs, jobs, stopped, timers, wsArr, interval, circular,
                   history, now, mon, signals, orderQueue, nextId, alive, builders, secbar,
                   ticks, events, failures>>

\* await priceQueue.add(...) rejects
PriceAddRejects(k) ==
    /\ alive /\ tasks[k].pc = "priceQueue.add"
    /\ Rejects(k)
    /\ UNCHANGED <<orderbooks, priceDocs, jobs, stopped, timers, wsArr, interval, circular,
                   history, now, mon, signals, priceQueue, orderQueue, nextId, builders,
                   secbar, ticks, events>>

\* await orderQueue.add(...) resolves, in the loop over [3, 10, 30]
OrderAddResolves(k) ==
    /\ alive /\ tasks[k].pc = "orderQueue.add"
    /\ LET tOffset == OrderOffsets[tasks[k].offset]
       IN orderQueue' = Append(orderQueue,
                               [name |-> "gate_orderbook",
                                data |-> [id |-> tasks[k].insertedId,
                                          symbol |-> tasks[k].symbol, tOffset |-> tOffset],
                                opts |-> JobOpts(tOffset * 1000)])
    /\ tasks' = IF tasks[k].offset = Len(OrderOffsets)
                THEN [tasks EXCEPT ![k].pc = "resolved",
                                   ![k].attempted = Append(@, Awaited(tasks[k]))]
                ELSE [tasks EXCEPT ![k].offset = tasks[k].offset + 1,
                                   ![k].attempted = Append(@, Awaited(tasks[k]))]
    /\ step' = "io"
    /\ UNCHANGED <<orderbooks, priceDocs, jobs, stopped, timers, wsArr, interval, circular,
                   history, now, mon, signals, priceQueue, nextId, alive, builders, secbar,
                   ticks, events, failures>>

\* await orderQueue.add(...) rejects
OrderAddRejects(k) ==
    /\ alive /\ tasks[k].pc = "orderQueue.add"
    /\ Rejects(k)
    /\ UNCHANGED <<orderbooks, priceDocs, jobs, stopped, timers, wsArr, interval, circular,
                   history, now, mon, signals, priceQueue, orderQueue, nextId, builders,
                   secbar, ticks, events>>

\* The stream handlers and the interval callback: what the gate decides.
NextGate ==
    \/ \E d \in TickDelays : Tick(d)
    \/ \E s \in Symbols, data \in TradeInputs : OnAggTrade(s, data)
    \/ \E s \in Symbols, data \in TickerInputs : OnTicker(s, data)
    \/ \E s \in Symbols, data \in BookInputs : OnBookTicker(s, data)
    \/ \E s \in Symbols, data \in DepthInputs : OnDepth(s, data)

\* The interval callback and the continuations of the calls it started.
NextPersist ==
    \/ \E d \in TickDelays : Tick(d)
    \/ \E k \in 1..Len(tasks) : InsertOneResolves(k)
    \/ \E k \in 1..Len(tasks) : InsertOneRejects(k)
    \/ \E k \in 1..Len(tasks) : PriceAddResolves(k)
    \/ \E k \in 1..Len(tasks) : PriceAddRejects(k)
    \/ \E k \in 1..Len(tasks) : OrderAddResolves(k)
    \/ \E k \in 1..Len(tasks) : OrderAddRejects(k)

Next == NextGate \/ NextPersist

\* The whole program; SpecGate and SpecPersist are its two halves, each
\* with the interval callback.
Spec == Init /\ [][Next]_vars
SpecGate == Init /\ [][NextGate]_vars
SpecPersist == Init /\ [][NextPersist]_vars

\* A SymbolMonitor constructed with any of the five tier names (app.js
\* passes only the three classifyTier returns), over a wider range of
\* volatilities, driven by ticks and trades.
TierNames == {"mega", "large", "mid", "small", "micro"}
TierReturnSizes == {5, 100, 200, 400, 600}

InitTiers ==
    /\ now = StartTime
    /\ mon \in [Symbols -> UNION {{WarmMonitor(s, tier, r) :
                                     tier \in TierNames, r \in TierReturnSizes} : s \in Symbols}]
    /\ \A s \in Symbols : mon[s].symbol = s
    /\ tasks = <<>>
    /\ signals = <<>>
    /\ priceQueue = <<>>
    /\ orderQueue = <<>>
    /\ nextId = 1
    /\ alive = TRUE
    /\ builders = [s \in Symbols |-> TapeAfter(WarmTrades, Len(WarmTrades)).builder]
    /\ secbar = [s \in Symbols |-> TapeAfter(WarmTrades, Len(WarmTrades)).zset]
    /\ step = "init"
    /\ ticks = 0
    /\ events = 0
    /\ failures = 0
    /\ orderbooks = <<>>
    /\ priceDocs = <<>>
    /\ jobs = <<>>
    /\ stopped = [requested |-> FALSE, ticks |-> 0]
    /\ timers = <<>>
    /\ wsArr = <<>>
    /\ interval = TRUE
    /\ circular = NewCircularBuffer(1)
    /\ history = <<>>

NextTiers ==
    \/ \E d \in TickDelays : Tick(d)
    \/ \E s \in Symbols, data \in TradeInputs : OnAggTrade(s, data)

SpecTiers == InitTiers /\ [][NextTiers]_vars

\* priceTape.js on its own: its exported functions handleTradeTick and
\* shutdownPriceTape called in any order on the builder of each pair, from
\* the state after initPriceTape. The first trade of a pair falls in the
\* second TapeStartSec.
MaxTapeEvents == 4
TapeTimes == {1000000, 1000500, 1001000, 1004000}
TapeStartSec == 1000000 \div 1000
TapePrices == {100, 101}
TapeVolumes == {10}

InitTape ==
    /\ now = StartTime
    /\ mon = [s \in Symbols |-> NewMonitor(s, "mid")]
    /\ tasks = <<>>
    /\ signals = <<>>
    /\ priceQueue = <<>>
    /\ orderQueue = <<>>
    /\ nextId = 1
    /\ alive = TRUE
    /\ builders = [s \in Symbols |-> NewBarBuilder]
    /\ secbar = [s \in Symbols |-> {}]
    /\ step = "init"
    /\ ticks = 0
    /\ events = 0
    /\ failures = 0
    /\ orderbooks = <<>>
    /\ priceDocs = <<>>
    /\ jobs = <<>>
    /\ stopped = [requested |-> FALSE, ticks |-> 0]
    /\ timers = <<>>
    /\ wsArr = <<>>
    /\ interval = TRUE
    /\ circular = NewCircularBuffer(1)
    /\ history = <<>>

\* handleTradeTick(pair, price, volumeUSDT, tsMs), called by its own
TapeTrade(pair, price, volumeUSDT, tsMs) ==
    /\ events < MaxTapeEvents
    /\ builders[pair].secBucketTS = Null => tsMs \div 1000 = TapeStartSec
    /\ handleTradeTick(pair, price, volumeUSDT, tsMs)
    /\ history' = Append(history, [call |-> "handleTradeTick", pair |-> pair, price |-> price,
                                   volumeUSDT |-> volumeUSDT, tsMs |-> tsMs])
    /\ events' = events + 1
    /\ step' = "trade"
    /\ UNCHANGED <<orderbooks, priceDocs, jobs, stopped, timers, wsArr, interval, circular,
                   now, mon, tasks, signals, priceQueue, orderQueue, nextId, alive, ticks,
                   failures>>

\* shutdownPriceTape(): flush() of every builder
shutdownPriceTape ==
    /\ events < MaxTapeEvents
    /\ secbar' = [pair \in Symbols |-> flush(builders[pair], secbar[pair])]
    /\ events' = events + 1
    /\ step' = "flush"
    /\ UNCHANGED <<orderbooks, priceDocs, jobs, stopped, timers, wsArr, interval, circular,
                   history, now, mon, tasks, signals, priceQueue, orderQueue, nextId, alive,
                   builders, ticks, failures>>

NextTape ==
    \/ \E pair \in Symbols, price \in TapePrices, volumeUSDT \in TapeVolumes, tsMs \in TapeTimes :
          TapeTrade(pair, price, volumeUSDT, tsMs)
    \/ shutdownPriceTape

SpecTape == InitTape /\ [][NextTape]_vars

\* The windows read from the tape: second boundaries at both ends, times
\* inside a second at both ends, and a window that ends before it starts.
ReadWindows == {<<1000000, 1001000>>, <<1000999, 1003001>>, <<1004000, 1000000>>}

\* getSecBars(pair, startMs, endMs), called on its own; the read succeeds
ReadTape(pair, startMs, endMs) ==
    /\ events < MaxTapeEvents
    /\ history' = Append(history, [call |-> "getSecBars", pair |-> pair, startMs |-> startMs,
                                   endMs |-> endMs,
                                   result |-> getSecBars(secbar, pair, startMs, endMs)])
    /\ events' = events + 1
    /\ step' = "read"
    /\ UNCHANGED <<orderbooks, priceDocs, jobs, stopped, timers, wsArr, interval, circular,
                   now, mon, tasks, signals, priceQueue, orderQueue, nextId, alive, builders,
                   secbar, ticks, failures>>

NextRead ==
    \/ NextTape
    \/ \E pair \in Symbols, w \in ReadWindows : ReadTape(pair, w[1], w[2])

SpecRead == InitTape /\ [][NextRead]_vars

\* The stream handler on its own, with two pairs monitored. A stream name
\* is held as the texts between its "@"s: btc_usdt@depth5@100ms is
\* <<"btc_usdt", "depth5", "100ms">>, and a name of one text has no "@". A
\* message is a record that has the fields the JSON object has; the
\* numeric fields of data hold what parseFloat and parseInt make of them.
MaxMessages == 3
StreamSymbols == {"BTC_USDT", "ETH_USDT"}
StreamTime == TapeStartSec * 1000

StreamMessages ==
    {[stream |-> <<"btc_usdt", "aggTrade">>,
      data |-> [p |-> 100, q |-> 2, E |-> StreamTime, m |-> FALSE]],
     [stream |-> <<"btc_usdt", "aggTrade">>,
      data |-> [p |-> 101, q |-> 3, E |-> StreamTime + 1000, m |-> TRUE]],
     [stream |-> <<"btc_usdt", "aggTrade">>,
      data |-> [p |-> NaN, q |-> 2, E |-> StreamTime, m |-> FALSE]],
     [stream |-> <<"btc_usdt", "aggTrade">>,
      data |-> [p |-> 100, q |-> 2, E |-> NaN, m |-> FALSE]],
     [stream |-> <<"eth_usdt", "aggTrade">>,
      data |-> [p |-> 50, q |-> 4, E |-> StreamTime, m |-> FALSE]],
     [stream |-> <<"btc_usdt", "ticker">>, data |-> [q |-> 500000000]],
     [stream |-> <<"btc_usdt", "ticker">>, data |-> [q |-> NaN]],
     [stream |-> <<"btc_usdt", "bookTicker">>, data |-> [b |-> 99, a |-> 101]],
     [stream |-> <<"btc_usdt", "bookTicker">>, data |-> [b |-> NaN, a |-> 103]],
     [stream |-> <<"btc_usdt", "depth5", "100ms">>,
      data |-> [bids |-> <<10, 10>>, asks |-> <<30>>]],
     [stream |-> <<"doge_usdt", "aggTrade">>,
      data |-> [p |-> 7, q |-> 1, E |-> StreamTime, m |-> FALSE]],
     [stream |-> <<"btc_usdt", "kline_1m">>,
      data |-> [p |-> 100, q |-> 2, E |-> StreamTime, m |-> FALSE]],
     [stream |-> <<"btc_usdt">>,
      data |-> [p |-> 100, q |-> 2, E |-> StreamTime, m |-> FALSE]],
     [stream |-> <<"btc_usdt", "aggTrade">>]}

InitStream ==
    /\ now = StartTime
    /\ mon = [s \in StreamSymbols |-> NewMonitor(s, "mid")]
    /\ tasks = <<>>
    /\ signals = <<>>
    /\ priceQueue = <<>>
    /\ orderQueue = <<>>
    /\ nextId = 1
    /\ alive = TRUE
    /\ builders = [s \in StreamSymbols |-> NewBarBuilder]
    /\ secbar = [s \in StreamSymbols |-> {}]
    /\ step = "init"
    /\ ticks = 0
    /\ events = 0
    /\ failures = 0
    /\ orderbooks = <<>>
    /\ priceDocs = <<>>
    /\ jobs = <<>>
    /\ stopped = [requested |-> FALSE, ticks |-> 0]
    /\ timers = <<>>
    /\ wsArr = <<>>
    /\ interval = TRUE
    /\ history = <<>>
    /\ circular = NewCircularBuffer(1)

Dispatch_ForwardsQuantity(message) ==
    IF "stream" \notin DOMAIN message \/ "data" \notin DOMAIN message
    THEN UNCHANGED <<mon, builders, secbar>>
    ELSE LET streamName == message.stream
             data == message.data
             symbol == ToUpperCase(streamName[1])
             streamType == Tail(streamName)
         IN IF Len(streamName) < 2 \/ symbol \notin DOMAIN mon
            THEN UNCHANGED <<mon, builders, secbar>>
            ELSE CASE streamType = <<"aggTrade">> ->
                        /\ mon' = [mon EXCEPT ![symbol] = addAggTrade(@, data)]
                        /\ handleTradeTick(symbol, data.p, data.q, data.E)
                   [] streamType = <<"ticker">> ->
                        /\ mon' = [mon EXCEPT ![symbol] = applyTickerUpdate(@, data)]
                        /\ UNCHANGED <<builders, secbar>>
                   [] streamType = <<"bookTicker">> ->
                        /\ mon' = [mon EXCEPT ![symbol] = applyBookTickerUpdate(@, data)]
                        /\ UNCHANGED <<builders, secbar>>
                   [] streamType = <<"depth5", "100ms">> ->
                        /\ mon' = [mon EXCEPT ![symbol] = updateDepthSnapshot(@, data)]
                        /\ UNCHANGED <<builders, secbar>>
                   [] OTHER -> UNCHANGED <<mon, builders, secbar>>

\* What processCombinedStreamData does with a message: nothing, or the
\* handler of the stream type on the monitor of the symbol.
Dispatch(message) ==
    IF "stream" \notin DOMAIN message \/ "data" \notin DOMAIN message
    THEN UNCHANGED <<mon, builders, secbar>>
    ELSE LET streamName == message.stream
             data == message.data
             symbol == ToUpperCase(streamName[1])
             streamType == Tail(streamName)
         IN IF Len(streamName) < 2 \/ symbol \notin DOMAIN mon
            THEN UNCHANGED <<mon, builders, secbar>>
            ELSE CASE streamType = <<"aggTrade">> ->
                        /\ mon' = [mon EXCEPT ![symbol] = addAggTrade(@, data)]
                        /\ handleTradeTick(symbol, data.p, Times(data.q, data.p), data.E)
                   [] streamType = <<"ticker">> ->
                        /\ mon' = [mon EXCEPT ![symbol] = applyTickerUpdate(@, data)]
                        /\ UNCHANGED <<builders, secbar>>
                   [] streamType = <<"bookTicker">> ->
                        /\ mon' = [mon EXCEPT ![symbol] = applyBookTickerUpdate(@, data)]
                        /\ UNCHANGED <<builders, secbar>>
                   [] streamType = <<"depth5", "100ms">> ->
                        /\ mon' = [mon EXCEPT ![symbol] = updateDepthSnapshot(@, data)]
                        /\ UNCHANGED <<builders, secbar>>
                   [] OTHER -> UNCHANGED <<mon, builders, secbar>>

\* processCombinedStreamData(rawMessage)
processCombinedStreamData(message) ==
    /\ alive /\ events < MaxMessages
    /\ Dispatch(message)
    /\ history' = Append(history, [call |-> "message", message |-> message])
    /\ events' = events + 1
    /\ step' = "message"
    /\ UNCHANGED <<orderbooks, priceDocs, jobs, stopped, timers, wsArr, interval, now, tasks,
                   signals, priceQueue, orderQueue, nextId, alive, ticks, failures, circular>>

NextStream == \E message \in StreamMessages : processCombinedStreamData(message)

SpecStream == InitStream /\ [][NextStream]_vars

\* The interval callback and the trade stream of two warm monitors. A
\* trade carries an event time 1500 ms before the last tick (older than
\* one second at every later tick) or 750 ms before it (exactly one second
\* old at the next tick).
TickMessages ==
    {[stream |-> <<"btc_usdt", "aggTrade">>,
      data |-> [p |-> 10001, q |-> 1, E |-> now - 1500, m |-> FALSE]],
     [stream |-> <<"btc_usdt", "aggTrade">>,
      data |-> [p |-> 10006, q |-> 2, E |-> now - 750, m |-> TRUE]],
     [stream |-> <<"eth_usdt", "aggTrade">>,
      data |-> [p |-> 10002, q |-> 1, E |-> now - 1500, m |-> TRUE]]}

InitTick ==
    /\ now = StartTime
    /\ mon = [s \in StreamSymbols |-> WarmMonitor(s, "mid", 100)]
    /\ tasks = <<>>
    /\ signals = <<>>
    /\ priceQueue = <<>>
    /\ orderQueue = <<>>
    /\ nextId = 1
    /\ alive = TRUE
    /\ builders = [s \in StreamSymbols |-> TapeAfter(WarmTrades, Len(WarmTrades)).builder]
    /\ secbar = [s \in StreamSymbols |-> TapeAfter(WarmTrades, Len(WarmTrades)).zset]
    /\ step = "init"
    /\ ticks = 0
    /\ events = 0
    /\ failures = 0
    /\ orderbooks = <<>>
    /\ priceDocs = <<>>
    /\ jobs = <<>>
    /\ stopped = [requested |-> FALSE, ticks |-> 0]
    /\ timers = <<>>
    /\ wsArr = <<>>
    /\ interval = TRUE
    /\ history = <<>>
    /\ circular = NewCircularBuffer(1)

NextTick ==
    \/ Tick(CHECK_SIGNAL_INTERVAL_MS)
    \/ \E message \in TickMessages : processCombinedStreamData(message)

SpecTick == InitTick /\ [][NextTick]_vars

\* The process from the end of start() to its exit: one monitored pair with
\* a bar in memory, the interval timer armed, and the transport with one
\* socket for its one chunk of topics. A socket is a record of its topic
\* chunk, its readyState, and whether the transport's listeners are still
\* attached to it.
MaxCloses == 2
StopChunk == "chunk 1"

StopMessages ==
    {[stream |-> <<"btc_usdt", "aggTrade">>,
      data |-> [p |-> 10006, q |-> 1, E |-> now + 1000, m |-> FALSE]]}

InitStop ==
    /\ now = StartTime
    /\ mon = [s \in Symbols |-> WarmMonitor(s, "mid", 100)]
    /\ tasks = <<>>
    /\ signals = <<>>
    /\ priceQueue = <<>>
    /\ orderQueue = <<>>
    /\ nextId = 1
    /\ alive = TRUE
    /\ builders = [s \in Symbols |-> TapeAfter(WarmTrades, Len(WarmTrades)).builder]
    /\ secbar = [s \in Symbols |-> TapeAfter(WarmTrades, Len(WarmTrades)).zset]
    /\ step = "init"
    /\ ticks = 0
    /\ events = 0
    /\ failures = 0
    /\ orderbooks = <<>>
    /\ history = <<>>
    /\ circular = NewCircularBuffer(1)
    /\ interval = TRUE
    /\ wsArr = spawnSocket(<<>>, StopChunk)
    /\ timers = <<>>
    /\ stopped = [requested |-> FALSE, ticks |-> 0]
    /\ jobs = <<>>
    /\ priceDocs = <<>>

\* ws.on("open"): the socket subscribes to its chunk and sets its ping
\* interval
SocketOpens(i) ==
    /\ alive /\ wsArr[i].readyState = "CONNECTING"
    /\ wsArr' = [wsArr EXCEPT ![i].readyState = "OPEN", ![i].ping = wsArr[i].listeners]
    /\ step' = "open"
    /\ UNCHANGED <<orderbooks, now, mon, tasks, signals, priceQueue, orderQueue, nextId, alive,
                   builders, secbar, ticks, events, failures, history, circular, interval,
                   timers, stopped, jobs, priceDocs>>

ScheduleRespawn_Twice(pending, topicChunk) ==
    pending \o <<[topicChunk |-> topicChunk, delay |-> RECONNECT_MS],
                 [topicChunk |-> topicChunk, delay |-> RECONNECT_MS]>>

\* What the close handler of a socket does to the pending timeouts:
\* setTimeout(() => this._spawnSocket(topicChunk), this.reconnectMs)
ScheduleRespawn(pending, topicChunk) ==
    Append(pending, [topicChunk |-> topicChunk, delay |-> RECONNECT_MS])

\* ws.on("close"): the connection of a tracked socket is lost; the handler
\* clears the ping interval of the socket and schedules
\* _spawnSocket(topicChunk) after reconnectMs
SocketCloses(i) ==
    /\ alive /\ failures < MaxCloses
    /\ wsArr[i].readyState \in {"CONNECTING", "OPEN"}
    /\ wsArr' = IF wsArr[i].listeners
                THEN [wsArr EXCEPT ![i].readyState = "CLOSED", ![i].ping = FALSE]
                ELSE [wsArr EXCEPT ![i].readyState = "CLOSED"]
    /\ timers' = IF wsArr[i].listeners THEN ScheduleRespawn(timers, wsArr[i].topicChunk)
                 ELSE timers
    /\ failures' = failures + 1
    /\ step' = "close"
    /\ UNCHANGED <<orderbooks, now, mon, tasks, signals, priceQueue, orderQueue, nextId, alive,
                   builders, secbar, ticks, events, history, circular, interval, stopped, jobs,
                   priceDocs>>

\* The timeout of a close handler fires: _spawnSocket(topicChunk)
ReconnectFires ==
    /\ alive /\ timers # <<>>
    /\ wsArr' = spawnSocket(wsArr, Head(timers).topicChunk)
    /\ timers' = Tail(timers)
    /\ step' = "respawn"
    /\ UNCHANGED <<orderbooks, now, mon, tasks, signals, priceQueue, orderQueue, nextId, alive,
                   builders, secbar, ticks, events, failures, history, circular, interval,
                   stopped, jobs, priceDocs>>

\* ws.on("message") of an open tracked socket: the transport emits the
\* message to processCombinedStreamData
SocketMessage(i, message) ==
    /\ wsArr[i].readyState = "OPEN" /\ wsArr[i].listeners
    /\ processCombinedStreamData(message)

\* stop(), up to its await: clearInterval, gateStream.disconnect() (which
\* closes and forgets every tracked socket), shutdownPriceTape(), and the
\* call of redis.quit()
stop ==
    /\ alive /\ ~stopped.requested
    /\ interval' = FALSE
    /\ wsArr' = <<>>
    /\ secbar' = [pair \in DOMAIN builders |-> flush(builders[pair], secbar[pair])]
    /\ stopped' = [requested |-> TRUE, ticks |-> ticks]
    /\ step' = "stop"
    /\ UNCHANGED <<orderbooks, now, mon, tasks, signals, priceQueue, orderQueue, nextId, alive,
                   builders, ticks, events, failures, history, circular, timers, jobs,
                   priceDocs>>

\* A redis.quit() that a signal handler awaits settles: process.exit(0)
exit ==
    /\ alive /\ stopped.requested
    /\ alive' = FALSE
    /\ step' = "exit"
    /\ UNCHANGED <<orderbooks, now, mon, tasks, signals, priceQueue, orderQueue, nextId,
                   builders, secbar, ticks, events, failures, history, circular, interval,
                   wsArr, timers, stopped, jobs, priceDocs>>

NextStop ==
    \/ Tick(CHECK_SIGNAL_INTERVAL_MS)
    \/ \E i \in 1..Len(wsArr) : SocketOpens(i)
    \/ \E i \in 1..Len(wsArr) : SocketCloses(i)
    \/ ReconnectFires
    \/ \E i \in 1..Len(wsArr), message \in StopMessages : SocketMessage(i, message)
    \/ stop
    \/ exit

SpecStop == InitStop /\ [][NextStop]_vars

\* The trajectory worker on its own: the jobs of two signals are in the
\* queue, and the tape holds nothing, bars before the window of the first
\* job only, one bar in it, or bars in it with a gap. A job is "waiting",
\* inside processJob at "getSecBars" or "insertOne", or settled as the
\* queue sees it: "completed" when the handler resolved, "failed" when it
\* rejected; read and insert tell how its two awaited calls ended.
WorkerTime == TapeStartSec * 1000
WorkerStores ==
    {{},
     {[member |-> <<100, 100, 100, 100, 10>>, score |-> 999]},
     {[member |-> <<100, 101, 100, 101, 20>>, score |-> 1003]},
     {[member |-> <<100, 100, 100, 100, 10>>, score |-> 1000],
      [member |-> <<100, 102, 100, 102, 30>>, score |-> 1002],
      [member |-> <<102, 102, 101, 101, 20>>, score |-> 1010]}}

WorkerJob(id, timestamp) ==
    [name |-> "gate_price",
     data |-> [id |-> id, symbol |-> "BTC_USDT", timestamp |-> timestamp],
     opts |-> JobOpts(31 * 60 * 1000)]

InitWorker ==
    /\ now = StartTime
    /\ mon = [s \in Symbols |-> NewMonitor(s, "mid")]
    /\ tasks = <<>>
    /\ signals = <<>>
    /\ priceQueue = <<WorkerJob(1, WorkerTime), WorkerJob(2, WorkerTime + 2 * WINDOW_MS)>>
    /\ orderQueue = <<>>
    /\ nextId = 3
    /\ alive = TRUE
    /\ builders = [s \in Symbols |-> NewBarBuilder]
    /\ secbar \in [Symbols -> WorkerStores]
    /\ step = "init"
    /\ ticks = 0
    /\ events = 0
    /\ failures = 0
    /\ orderbooks = <<>>
    /\ history = <<>>
    /\ circular = NewCircularBuffer(1)
    /\ interval = TRUE
    /\ wsArr = <<>>
    /\ timers = <<>>
    /\ stopped = [requested |-> FALSE, ticks |-> 0]
    /\ jobs = [i \in 1..2 |-> [state |-> "waiting", read |-> "none", bars |-> <<>>, insert |-> "none"]]
    /\ priceDocs = <<>>

\* The worker takes a job whose delay has passed: processJob(job) runs up
\* to await getSecBars(symbol, startMs, endMs - 1000)
JobStarts(i) ==
    /\ alive /\ jobs[i].state = "waiting"
    /\ jobs' = [jobs EXCEPT ![i].state = "getSecBars"]
    /\ step' = "job"
    /\ UNCHANGED <<orderbooks, now, mon, tasks, signals, priceQueue, orderQueue, nextId, alive,
                   builders, secbar, ticks, events, failures, history, circular, interval,
                   wsArr, timers, stopped, priceDocs>>

\* getSecBars resolves: processJob builds the document and runs up to
\* await mongo.prices.insertOne
ReadResolves(i) ==
    /\ alive /\ jobs[i].state = "getSecBars"
    /\ LET startMs == priceQueue[i].data.timestamp
           endMs == startMs + WINDOW_MS
       IN jobs' = [jobs EXCEPT ![i].state = "insertOne", ![i].read = "resolved",
                               ![i].bars = getSecBars(secbar, priceQueue[i].data.symbol,
                                                      startMs, endMs - 1000)]
    /\ step' = "job"
    /\ UNCHANGED <<orderbooks, now, mon, tasks, signals, priceQueue, orderQueue, nextId, alive,
                   builders, secbar, ticks, events, failures, history, circular, interval,
                   wsArr, timers, stopped, priceDocs>>

\* getSecBars rejects: processJob rejects, the catch of the handler logs
\* the error, and the handler resolves
ReadRejects(i) ==
    /\ alive /\ jobs[i].state = "getSecBars" /\ failures < MaxFailures
    /\ jobs' = [jobs EXCEPT ![i].state = "completed", ![i].read = "rejected"]
    /\ failures' = failures + 1
    /\ step' = "job"
    /\ UNCHANGED <<orderbooks, now, mon, tasks, signals, priceQueue, orderQueue, nextId, alive,
                   builders, secbar, ticks, events, history, circular, interval, wsArr, timers,
                   stopped, priceDocs>>

\* mongo.prices.insertOne resolves: the handler resolves
PriceInsertResolves(i) ==
    /\ alive /\ jobs[i].state = "insertOne"
    /\ priceDocs' = Append(priceDocs, PriceDocument(priceQueue[i].data, jobs[i].bars))
    /\ jobs' = [jobs EXCEPT ![i].state = "completed", ![i].insert = "resolved"]
    /\ step' = "job"
    /\ UNCHANGED <<orderbooks, now, mon, tasks, signals, priceQueue, orderQueue, nextId, alive,
                   builders, secbar, ticks, events, failures, history, circular, interval,
                   wsArr, timers, stopped>>

\* mongo.prices.insertOne rejects: caught and logged like a failed read
PriceInsertRejects(i) ==
    /\ alive /\ jobs[i].state = "insertOne" /\ failures < MaxFailures
    /\ jobs' = [jobs EXCEPT ![i].state = "completed", ![i].insert = "rejected"]
    /\ failures' = failures + 1
    /\ step' = "job"
    /\ UNCHANGED <<orderbooks, now, mon, tasks, signals, priceQueue, orderQueue, nextId, alive,
                   builders, secbar, ticks, events, history, circular, interval, wsArr, timers,
                   stopped, priceDocs>>

NextWorker ==
    \E i \in 1..Len(jobs) :
        \/ JobStarts(i)
        \/ ReadResolves(i)
        \/ ReadRejects(i)
        \/ PriceInsertResolves(i)
        \/ PriceInsertRejects(i)

SpecWorker == InitWorker /\ [][NextWorker]_vars

\* The trajectory worker on the windows that decide its rows: the jobs of
\* two signals one second apart, and a tape that holds two bars, bars whose
\* earlier close is 0, bars with gaps and a bar after the window, or a bar
\* for each of the 1801 seconds from the first signal on (equal closes but
\* for the last two, and the volumes all different, as the members of a
\* sorted set are).
RowStores ==
    {{[member |-> <<100, 101, 100, 101, 10>>, score |-> TapeStartSec + 3],
      [member |-> <<101, 102, 101, 102, 20>>, score |-> TapeStartSec + 4]},
     {[member |-> <<0, 0, 0, 0, 10>>, score |-> TapeStartSec + 2],
      [member |-> <<100, 100, 100, 100, 20>>, score |-> TapeStartSec + 5]},
     {[member |-> <<0, 0, 0, 0, 10>>, score |-> TapeStartSec + 2],
      [member |-> <<100, 100, 100, 100, 20>>, score |-> TapeStartSec + 5],
      [member |-> <<100, 101, 100, 101, 30>>, score |-> TapeStartSec + 6]},
     {[member |-> <<100, 100, 100, 100, 10>>, score |-> TapeStartSec],
      [member |-> <<100, 102, 100, 102, 30>>, score |-> TapeStartSec + 2],
      [member |-> <<102, 102, 101, 101, 20>>, score |-> TapeStartSec + 10],
      [member |-> <<101, 103, 101, 103, 40>>, score |-> TapeStartSec + 1799],
      [member |-> <<103, 104, 103, 104, 50>>, score |-> TapeStartSec + 1801]},
     {[member |-> <<100, 102, 100, IF s < 1799 THEN 100 ELSE s - 1698, 10 + s>>,
       score |-> TapeStartSec + s] : s \in 0..1800}}

InitRows ==
    /\ now = StartTime
    /\ mon = [s \in Symbols |-> NewMonitor(s, "mid")]
    /\ tasks = <<>>
    /\ signals = <<>>
    /\ priceQueue = <<WorkerJob(1, WorkerTime), WorkerJob(2, WorkerTime + 1000)>>
    /\ orderQueue = <<>>
    /\ nextId = 3
    /\ alive = TRUE
    /\ builders = [s \in Symbols |-> NewBarBuilder]
    /\ \E store \in RowStores : secbar = [s \in Symbols |-> IF s = "BTC_USDT" THEN store ELSE {}]
    /\ step = "init"
    /\ ticks = 0
    /\ events = 0
    /\ failures = 0
    /\ orderbooks = <<>>
    /\ history = <<>>
    /\ circular = NewCircularBuffer(1)
    /\ interval = TRUE
    /\ wsArr = <<>>
    /\ timers = <<>>
    /\ stopped = [requested |-> FALSE, ticks |-> 0]
    /\ jobs = [i \in 1..2 |-> [state |-> "waiting", read |-> "none", bars |-> <<>>, insert |-> "none"]]
    /\ priceDocs = <<>>

SpecRows == InitRows /\ [][NextWorker]_vars

\* The orderbook workers on their own: the three jobs of one signal are in
\* the queue and any number of them may be running at once. A job is
\* "waiting", inside restRequest at "axios" (a request is out) or at
\* "backoff" (the delay before the next attempt), at "updateOne", or
\* settled: "completed" when the handler resolved, "failed" when it
\* rejected. fetch tells how fetchDepth5 ended, and entry is the snapshot
\* entry given to updateOne.
BookSnapshots ==
    {[bids |-> <<>>, asks |-> <<>>],
     [bids |-> <<<<98, 2>>, <<97, 3>>, <<96, 1>>, <<95, 1>>, <<94, 1>>, <<93, 7>>>>,
      asks |-> <<<<102, 1>>, <<103, 2>>>>]}

\* What axios resolves with: the snapshot, or a response that is not 200.
BookResponses ==
    {[status |-> 200, data |-> b] : b \in BookSnapshots} \cup {[status |-> 204, data |-> <<>>]}

InitBook ==
    /\ now = StartTime
    /\ mon = [s \in Symbols |-> NewMonitor(s, "mid")]
    /\ tasks = <<>>
    /\ signals = <<>>
    /\ priceQueue = <<>>
    /\ orderQueue = [k \in 1..Len(OrderOffsets) |->
                        [name |-> "gate_orderbook",
                         data |-> [id |-> 1, symbol |-> "BTC_USDT", tOffset |-> OrderOffsets[k]],
                         opts |-> JobOpts(OrderOffsets[k] * 1000)]]
    /\ nextId = 2
    /\ alive = TRUE
    /\ builders = [s \in Symbols |-> NewBarBuilder]
    /\ secbar = [s \in Symbols |-> {}]
    /\ step = "init"
    /\ ticks = 0
    /\ events = 0
    /\ failures = 0
    /\ history = <<>>
    /\ circular = NewCircularBuffer(1)
    /\ interval = TRUE
    /\ wsArr = <<>>
    /\ timers = <<>>
    /\ stopped = [requested |-> FALSE, ticks |-> 0]
    /\ jobs = [k \in 1..Len(OrderOffsets) |->
                  [state |-> "waiting", attempt |-> 0, fetch |-> "none", entry |-> Null]]
    /\ priceDocs = <<>>
    /\ orderbooks = <<>>

\* A worker takes a job whose delay has passed: the handler calls
\* fetchDepth5, and restRequest makes its first request
BookJobStarts(i) ==
    /\ jobs[i].state = "waiting"
    /\ jobs' = [jobs EXCEPT ![i].state = "axios"]
    /\ step' = "job"
    /\ UNCHANGED <<orderbooks, priceDocs, stopped, timers, wsArr, interval, circular, history,
                   now, mon, tasks, signals, priceQueue, orderQueue, nextId, alive, builders,
                   secbar, ticks, events, failures>>

AttemptFailed_Raises(job) ==
    IF job.attempt + 1 > maxRetries
    THEN [job EXCEPT !.attempt = @ + 1, !.state = "failed", !.fetch = "rejected"]
    ELSE [job EXCEPT !.attempt = @ + 1, !.state = "backoff"]

\* restRequest after a request that threw or did not answer 200: one more
\* attempt is counted; past maxRetries it throws, fetchDepth5 rejects, and
\* the catch of the handler logs and returns; otherwise it waits.
AttemptFailed(job) ==
    IF job.attempt + 1 > maxRetries
    THEN [job EXCEPT !.attempt = @ + 1, !.state = "completed", !.fetch = "rejected"]
    ELSE [job EXCEPT !.attempt = @ + 1, !.state = "backoff"]

\* axios resolves: with status 200 restRequest returns the response, the
\* handler builds the entry and runs up to await updateOne
AxiosResolves(i, response) ==
    /\ jobs[i].state = "axios"
    /\ jobs' = IF response.status = 200
               THEN [jobs EXCEPT ![i].state = "updateOne", ![i].fetch = "resolved",
                                 ![i].entry = BookEntry(response.data,
                                                        orderQueue[i].data.tOffset, now)]
               ELSE [jobs EXCEPT ![i] = AttemptFailed(@)]
    /\ step' = "job"
    /\ UNCHANGED <<orderbooks, priceDocs, stopped, timers, wsArr, interval, circular, history,
                   now, mon, tasks, signals, priceQueue, orderQueue, nextId, alive, builders,
                   secbar, ticks, events, failures>>

\* axios rejects
AxiosRejects(i) ==
    /\ jobs[i].state = "axios"
    /\ jobs' = [jobs EXCEPT ![i] = AttemptFailed(@)]
    /\ step' = "job"
    /\ UNCHANGED <<orderbooks, priceDocs, stopped, timers, wsArr, interval, circular, history,
                   now, mon, tasks, signals, priceQueue, orderQueue, nextId, alive, builders,
                   secbar, ticks, events, failures>>

\* the delay of restRequest ends: the next request goes out
BackoffEnds(i) ==
    /\ jobs[i].state = "backoff"
    /\ jobs' = [jobs EXCEPT ![i].state = "axios"]
    /\ step' = "job"
    /\ UNCHANGED <<orderbooks, priceDocs, stopped, timers, wsArr, interval, circular, history,
                   now, mon, tasks, signals, priceQueue, orderQueue, nextId, alive, builders,
                   secbar, ticks, events, failures>>

\* the store applies the update and updateOne resolves: the handler ends
UpdateOneResolves(i) ==
    /\ jobs[i].state = "updateOne"
    /\ orderbooks' = updateOne(orderbooks, orderQueue[i].data.id, orderQueue[i].data.symbol,
                               jobs[i].entry)
    /\ jobs' = [jobs EXCEPT ![i].state = "completed"]
    /\ step' = "job"
    /\ UNCHANGED <<priceDocs, stopped, timers, wsArr, interval, circular, history, now, mon,
                   tasks, signals, priceQueue, orderQueue, nextId, alive, builders, secbar,
                   ticks, events, failures>>

NextBook ==
    \E i \in 1..Len(jobs) :
        \/ BookJobStarts(i)
        \/ \E response \in BookResponses : AxiosResolves(i, response)
        \/ AxiosRejects(i)
        \/ BackoffEnds(i)
        \/ UpdateOneResolves(i)

SpecBook == InitBook /\ [][NextBook]_vars

\* The tick on a long clock: the monitors are as constructed, or have
\* refreshed their time cache at the start time or about a minute before,
\* and the ticks come a period, about a minute, two minutes, an hour, a
\* day or two days (from a Thursday to a Saturday) after one another.
ClockDelays ==
    {CHECK_SIGNAL_INTERVAL_MS, TIME_CACHE_DURATION_MS - CHECK_SIGNAL_INTERVAL_MS,
     TIME_CACHE_DURATION_MS - 1, TIME_CACHE_DURATION_MS, TIME_CACHE_DURATION_MS + 1,
     2 * TIME_CACHE_DURATION_MS, 3600000, 86400000, 2 * 86400000}

ClockRefreshes ==
    {0, StartTime - TIME_CACHE_DURATION_MS,
     StartTime - (TIME_CACHE_DURATION_MS - CHECK_SIGNAL_INTERVAL_MS), StartTime}

InitClock ==
    /\ now = StartTime
    /\ \E last \in ClockRefreshes, tier \in {"mid", "large"} :
          mon = [s \in Symbols |->
                   IF last = 0 THEN NewMonitor(s, tier)
                   ELSE updateTimeCache(NewMonitor(s, tier), last)]
    /\ tasks = <<>>
    /\ signals = <<>>
    /\ priceQueue = <<>>
    /\ orderQueue = <<>>
    /\ nextId = 1
    /\ alive = TRUE
    /\ builders = [s \in Symbols |-> NewBarBuilder]
    /\ secbar = [s \in Symbols |-> {}]
    /\ step = "init"
    /\ ticks = 0
    /\ events = 0
    /\ failures = 0
    /\ history = <<>>
    /\ circular = NewCircularBuffer(1)
    /\ interval = TRUE
    /\ wsArr = <<>>
    /\ timers = <<>>
    /\ stopped = [requested |-> FALSE, ticks |-> 0]
    /\ jobs = <<>>
    /\ priceDocs = <<>>
    /\ orderbooks = <<>>

NextClock == \E d \in ClockDelays : Tick(d)

SpecClock == InitClock /\ [][NextClock]_vars

\* The transport from connect on: start() has built the monitors and calls
\* connect once, with the four streams of each of 1, 45, 46, 90 or 91
\* selected pairs, with no channel, with channels that map to no topic, or
\* with such channels among 181 that do; sockets then open, deliver trades
\* of their chunk, lose their connection and are spawned again.
StreamsOf(n) ==
    [i \in 1..(4 * n) |->
        LET symbol == LowerPairName(((i - 1) \div 4) + 1)
        IN CASE i % 4 = 1 -> <<symbol, "aggTrade">>
             [] i % 4 = 2 -> <<symbol, "ticker">>
             [] i % 4 = 3 -> <<symbol, "bookTicker">>
             [] OTHER -> <<symbol, "depth5", "100ms">>]

ChannelLists ==
    {StreamsOf(n) : n \in {0, 1, 45, 46, 90, 91}}
    \cup {<<<<"btc_usdt">>, <<"eth_usdt", "kline_1m">>>>,
          <<<<"doge_usdt">>>> \o StreamsOf(45)
              \o <<<<"eth_usdt", "kline_1m">>, <<"DOGE_USDT", "AGGTRADE">>>>}

InitSockets ==
    /\ now = StartTime
    /\ mon = [s \in Symbols |-> WarmMonitor(s, "mid", 100)]
    /\ tasks = <<>>
    /\ signals = <<>>
    /\ priceQueue = <<>>
    /\ orderQueue = <<>>
    /\ nextId = 1
    /\ alive = TRUE
    /\ builders = [s \in Symbols |-> TapeAfter(WarmTrades, Len(WarmTrades)).builder]
    /\ secbar = [s \in Symbols |-> TapeAfter(WarmTrades, Len(WarmTrades)).zset]
    /\ step = "init"
    /\ ticks = 0
    /\ events = 0
    /\ failures = 0
    /\ orderbooks = <<>>
    /\ history = <<>>
    /\ circular = NewCircularBuffer(1)
    /\ interval = TRUE
    /\ wsArr = <<>>
    /\ timers = <<>>
    /\ stopped = [requested |-> FALSE, ticks |-> 0]
    /\ jobs = <<>>
    /\ priceDocs = <<>>

\* gateStream.connect(initialStreams), the one call of start()
Connect(channels) ==
    /\ alive /\ history = <<>>
    /\ wsArr' = connect(channels)
    /\ history' = <<[call |-> "connect", channels |-> channels]>>
    /\ step' = "connect"
    /\ UNCHANGED <<orderbooks, now, mon, tasks, signals, priceQueue, orderQueue, nextId, alive,
                   builders, secbar, ticks, events, failures, circular, interval, timers,
                   stopped, jobs, priceDocs>>

NextSockets ==
    \/ \E channels \in ChannelLists : Connect(channels)
    \/ \E i \in 1..Len(wsArr) : SocketOpens(i)
    \/ \E i \in 1..Len(wsArr) : SocketCloses(i)
    \/ ReconnectFires
    \/ \E i \in 1..Len(wsArr), message \in StopMessages :
          /\ \E n \in 1..Len(wsArr[i].topicChunk) :
                wsArr[i].topicChunk[n] = mapChannelToTopic(message.stream)
          /\ SocketMessage(i, message)

SpecSockets == InitSockets /\ [][NextSockets]_vars

\* The stream of best quotes: book tickers of one pair whose bid and ask
\* are each unparsable, negative, zero or a price (also an ask under the
\* bid), a book ticker of the other pair, a trade, and the tick, from
\* monitors as constructed.
QuoteMessages ==
    {[stream |-> <<"btc_usdt", "bookTicker">>, data |-> [b |-> b, a |-> a]] :
        b \in {NaN, 0 - 5, 99}, a \in {NaN, 0, 98, 101}}
    \cup {[stream |-> <<"eth_usdt", "bookTicker">>, data |-> [b |-> 49, a |-> 51]],
          [stream |-> <<"btc_usdt", "aggTrade">>,
           data |-> [p |-> 100, q |-> 2, E |-> StreamTime, m |-> FALSE]]}

NextQuotes ==
    \/ \E message \in QuoteMessages : processCombinedStreamData(message)
    \/ Tick(CHECK_SIGNAL_INTERVAL_MS)

SpecQuotes == InitStream /\ [][NextQuotes]_vars

\* The periodic calculations on their own: one tick every 250, 750 or
\* 1000 ms and trades in between, on monitors as constructed and on
\* monitors that have traded for five minutes and hold 299 or 300 returns,
\* one per second up to the start time.
VolDelays == {CHECK_SIGNAL_INTERVAL_MS, 3 * CHECK_SIGNAL_INTERVAL_MS, 4 * CHECK_SIGNAL_INTERVAL_MS}
ReturnsHeld == {0, 299, 300}

VolTrades ==
    {[p |-> 10006, q |-> 1, E |-> now, m |-> FALSE],
     [p |-> 10004, q |-> 3, E |-> now - 100, m |-> TRUE]}

InitVol ==
    /\ now = StartTime
    /\ \E held \in ReturnsHeld :
          LET returns == [i \in 1..held |->
                            [time |-> StartTime - (held - i) * 1000,
                             return |-> IF i % 2 = 1 THEN 100 ELSE 0 - 100]]
              v30 == calculateAnnualizedVolatility(ReturnsAfter(returns, StartTime - 30000))
              v5 == calculateAnnualizedVolatility(ReturnsAfter(returns, StartTime - 300000))
          IN mon = [s \in Symbols |->
                      IF held = 0 THEN NewMonitor(s, "mid")
                      ELSE [WarmMonitor(s, "mid", 100) EXCEPT
                              !.returnHistory = returns,
                              !.volatility30s = v30, !.volatility5m = v5,
                              !.volatilityRatio =
                                  IF v5 > 0 THEN ((v30 \div 100) * 1000) \div (v5 \div 100)
                                  ELSE 1000]]
    /\ tasks = <<>>
    /\ signals = <<>>
    /\ priceQueue = <<>>
    /\ orderQueue = <<>>
    /\ nextId = 1
    /\ alive = TRUE
    /\ builders = [s \in Symbols |-> NewBarBuilder]
    /\ secbar = [s \in Symbols |-> {}]
    /\ step = "init"
    /\ ticks = 0
    /\ events = 0
    /\ failures = 0
    /\ history = <<>>
    /\ circular = NewCircularBuffer(1)
    /\ interval = TRUE
    /\ wsArr = <<>>
    /\ timers = <<>>
    /\ stopped = [requested |-> FALSE, ticks |-> 0]
    /\ jobs = <<>>
    /\ priceDocs = <<>>
    /\ orderbooks = <<>>

NextVol ==
    \/ \E d \in VolDelays : Tick(d)
    \/ \E s \in Symbols, data \in VolTrades : OnAggTrade(s, data)

SpecVol == InitVol /\ [][NextVol]_vars

\* The indicators of one tick after another: monitors as constructed,
\* monitors that have ticked nine times since their construction (with no
\* trade at all, or with one trade before each tick at prices rising or
\* falling by a cent), and monitors that have traded for a while at one
\* price. Ticks come 50, 250 or 2000 ms after one another (Date.now() is
\* the wall clock, and a timer can be late); the trades in between move
\* the price above or below every earlier one, come with an event time
\* 1500 ms old, or carry no price (parseFloat(undefined) is NaN).
IndicatorDelays == {50, CHECK_SIGNAL_INTERVAL_MS, PRICE_SLOPE_LOOKBACK_MS}
IndicatorPasts == {"new", "idle", "rising", "falling", "warm"}

IndicatorTrades ==
    {[p |-> 10012, q |-> 1, E |-> now, m |-> FALSE],
     [p |-> 10015, q |-> 3, E |-> now - 1500, m |-> FALSE],
     [p |-> 9990, q |-> 2, E |-> now - 100, m |-> TRUE],
     [p |-> NaN, q |-> 1, E |-> now, m |-> FALSE]}

InitIndicators ==
    /\ now = StartTime
    /\ \E past \in IndicatorPasts :
          LET RECURSIVE After(_, _)
              After(s, n) ==
                  IF n = 0 THEN NewMonitor(s, "mid")
                  ELSE LET t == StartTime - (9 - n) * CHECK_SIGNAL_INTERVAL_MS
                           price == IF past = "rising" THEN 10000 + n ELSE 10000 - n
                           before == After(s, n - 1)
                           traded == IF past = "idle" THEN before
                                     ELSE addAggTrade(before, [p |-> price, q |-> 1,
                                                               E |-> t - 100, m |-> FALSE])
                       \* (the test makes the earlier monitor be evaluated first)
                       IN IF before.symbol = s THEN TickMonitor(traded, t) ELSE before
          IN mon = [s \in Symbols |->
                      CASE past = "new" -> NewMonitor(s, "mid")
                        [] past = "warm" -> WarmMonitor(s, "mid", 100)
                        [] OTHER -> After(s, 9)]
    /\ tasks = <<>>
    /\ signals = <<>>
    /\ priceQueue = <<>>
    /\ orderQueue = <<>>
    /\ nextId = 1
    /\ alive = TRUE
    /\ builders = [s \in Symbols |-> NewBarBuilder]
    /\ secbar = [s \in Symbols |-> {}]
    /\ step = "init"
    /\ ticks = 0
    /\ events = 0
    /\ failures = 0
    /\ history = <<>>
    /\ circular = NewCircularBuffer(1)
    /\ interval = TRUE
    /\ wsArr = <<>>
    /\ timers = <<>>
    /\ stopped = [requested |-> FALSE, ticks |-> 0]
    /\ jobs = <<>>
    /\ priceDocs = <<>>
    /\ orderbooks = <<>>

NextIndicators ==
    \/ \E d \in IndicatorDelays : Tick(d)
    \/ \E s \in Symbols, data \in IndicatorTrades : OnAggTrade(s, data)

SpecIndicators == InitIndicators /\ [][NextIndicators]_vars

\* restRequest on its own: one call with maxRetries from 0 up, the default
\* backoffBaseMs, with and without jitter. Every request of the call
\* resolves with status 200, resolves with another status, or rejects;
\* Math.random() is 0, a half, or just below 1. jobs holds the call: where
\* it is, its attempt counter, the requests made and the delays waited.
MaxRetriesGiven == 3
backoffBaseMs == 500
RequestOutcomes == {200, 204, NaN}

RECURSIVE Pow2(_)
Pow2(n) == IF n = 0 THEN 1 ELSE 2 * Pow2(n - 1)

\* if (attempt > maxRetries) throw
Exhausted_OneEarly(attempt, retries) == attempt >= retries

Exhausted(attempt, retries) == attempt > retries

\* jitter ? Math.random() * backoffBaseMs * 2 ^ attempt : backoffBaseMs * 2 ^ attempt
BackoffDelays(call) ==
    LET whole == call.backoffBaseMs * Pow2(call.attempt)
    IN IF call.jitter THEN {0, whole \div 2, whole - 1} ELSE {whole}

InitRest ==
    /\ now = StartTime
    /\ mon = [s \in Symbols |-> NewMonitor(s, "mid")]
    /\ tasks = <<>>
    /\ signals = <<>>
    /\ priceQueue = <<>>
    /\ orderQueue = <<>>
    /\ nextId = 1
    /\ alive = TRUE
    /\ builders = [s \in Symbols |-> NewBarBuilder]
    /\ secbar = [s \in Symbols |-> {}]
    /\ step = "init"
    /\ ticks = 0
    /\ events = 0
    /\ failures = 0
    /\ history = <<>>
    /\ circular = NewCircularBuffer(1)
    /\ interval = TRUE
    /\ wsArr = <<>>
    /\ timers = <<>>
    /\ stopped = [requested |-> FALSE, ticks |-> 0]
    /\ \E retries \in 0..MaxRetriesGiven, jitter \in BOOLEAN :
          jobs = <<[state |-> "axios", attempt |-> 0, maxRetries |-> retries,
                    backoffBaseMs |-> backoffBaseMs, jitter |-> jitter,
                    statuses |-> <<>>, delays |-> <<>>]>>
    /\ priceDocs = <<>>
    /\ orderbooks = <<>>

\* await axios(config) settles (NaN stands for a rejection): with status
\* 200 restRequest returns the response; otherwise attempt is counted up,
\* and the call throws when the retries are used up or else starts its
\* delay
RequestSettles(status) ==
    LET call == jobs[1]
        failed == [call EXCEPT !.attempt = @ + 1, !.statuses = Append(@, status)]
    IN /\ call.state = "axios"
       /\ IF status = 200
          THEN jobs' = <<[call EXCEPT !.state = "returned", !.statuses = Append(@, status)]>>
          ELSE IF Exhausted(failed.attempt, call.maxRetries)
          THEN jobs' = <<[failed EXCEPT !.state = "thrown"]>>
          ELSE \E delay \in BackoffDelays(failed) :
                  jobs' = <<[failed EXCEPT !.state = "delay", !.delays = Append(@, delay)]>>
       /\ step' = "request"
       /\ UNCHANGED <<orderbooks, priceDocs, stopped, timers, wsArr, interval, circular,
                      history, now, mon, tasks, signals, priceQueue, orderQueue, nextId, alive,
                      builders, secbar, ticks, events, failures>>

\* the timeout of the delay fires: the loop tests attempt <= maxRetries
\* and makes the next request
DelayEnds ==
    /\ jobs[1].state = "delay"
    /\ jobs' = <<[jobs[1] EXCEPT !.state = IF jobs[1].attempt <= jobs[1].maxRetries
                                           THEN "axios" ELSE "ended"]>>
    /\ step' = "delay"
    /\ UNCHANGED <<orderbooks, priceDocs, stopped, timers, wsArr, interval, circular,
                   history, now, mon, tasks, signals, priceQueue, orderQueue, nextId, alive,
                   builders, secbar, ticks, events, failures>>

NextRest ==
    \/ \E status \in RequestOutcomes : RequestSettles(status)
    \/ DelayEnds

\* Every request settles and every timeout fires.
SpecRest == InitRest /\ [][NextRest]_vars /\ WF_vars(NextRest)

\* A CircularBuffer on its own: constructed with a capacity, then add
\* called with any items.
MaxAdds == 6
MaxCapacity == 3
BufferItems == {1, 2}

InitBuffer ==
    /\ now = StartTime
    /\ mon = [s \in Symbols |-> NewMonitor(s, "mid")]
    /\ tasks = <<>>
    /\ signals = <<>>
    /\ priceQueue = <<>>
    /\ orderQueue = <<>>
    /\ nextId = 1
    /\ alive = TRUE
    /\ builders = [s \in Symbols |-> NewBarBuilder]
    /\ secbar = [s \in Symbols |-> {}]
    /\ step = "init"
    /\ ticks = 0
    /\ events = 0
    /\ failures = 0
    /\ orderbooks = <<>>
    /\ priceDocs = <<>>
    /\ jobs = <<>>
    /\ stopped = [requested |-> FALSE, ticks |-> 0]
    /\ timers = <<>>
    /\ wsArr = <<>>
    /\ interval = TRUE
    /\ history = <<>>
    /\ circular \in {NewCircularBuffer(capacity) : capacity \in 1..MaxCapacity}

\* circular.add(item)
BufferAddCall(item) ==
    /\ events < MaxAdds
    /\ circular' = [circular EXCEPT !.buffer = BufferAdd(@, circular.capacity, item)]
    /\ history' = Append(history, [call |-> "add", item |-> item])
    /\ events' = events + 1
    /\ step' = "add"
    /\ UNCHANGED <<orderbooks, priceDocs, jobs, stopped, timers, wsArr, interval, now, mon,
                   tasks, signals, priceQueue, orderQueue, nextId, alive, builders, secbar,
                   ticks, failures>>

NextBuffer == \E item \in BufferItems : BufferAddCall(item)

SpecBuffer == InitBuffer /\ [][NextBuffer]_vars

\* ---------------------------------------------------------------- claims
\* The trigger time of the k-th emission, and TRUE when symbol s emitted a
\* signal at time t.
TriggerTime(k) == tasks[k].vector.signalTimestampMs
EmittedAt(s, t) == \E k \in 1..Len(tasks) : tasks[k].symbol = s /\ TriggerTime(k) = t

\* TRUE of a step that adds an emission of symbol s, made at the new time.
EmitsFor(s) ==
    \E k \in (Len(tasks) + 1)..Len(tasks') :
        tasks'[k].symbol = s /\ tasks'[k].vector.signalTimestampMs = now'

\* C1: any two emissions of one symbol have trigger times at least 6000 ms
\* apart, whatever the persist and the enqueues of the earlier one are
\* doing.
C1_EmissionsSixSecondsApart ==
    \A i, j \in 1..Len(tasks) :
        (i < j /\ tasks[i].symbol = tasks[j].symbol) => TriggerTime(j) - TriggerTime(i) >= 6000

\* Two emissions of one symbol, the second made while the persist of the
\* first was still pending.
C1_Witness ==
    \E i, j \in 1..Len(tasks) :
        /\ i < j /\ tasks[i].symbol = tasks[j].symbol
        /\ tasks[i].pc = "insertOne"

\* The guards of checkSignal other than the cooldown hold for m at time t.
OtherGuardsHold(m, t) ==
    /\ ~NoPriceOrBaseline(m) /\ ~NoVolatility(m) /\ ~LowDayVolume(m)
    /\ hasSufficientLiquidity(m) /\ ~VolatilityOutOfRange(m) /\ ~BadQuotes(m)
    /\ ~WideSpread(m) /\ isVolumeSpike(m) /\ ~NoPriceImpulse(m, t)

\* C2: on a tick at time t after a signal at time T, no signal is emitted
\* when t - T < 6000, and one is emitted when t - T >= 6000 and every other
\* guard holds.
C2_CooldownExactlySixSeconds ==
    [][ticks' = ticks + 1 =>
         \A s \in Symbols :
            LET T == mon[s].lastSignalTriggerTime
                emitted == EmitsFor(s)
            IN T > 0 =>
                 /\ now' - T < 6000 => ~emitted
                 /\ (now' - T >= 6000 /\ OtherGuardsHold(mon'[s], now')) => emitted]_vars

\* A second emission exactly 6000 ms after the first.
C2_Witness ==
    \E i, j \in 1..Len(tasks) :
        tasks[i].symbol = tasks[j].symbol /\ TriggerTime(j) - TriggerTime(i) = 6000

\* The guards as the specification lists them, for the monitor m of an
\* evaluation at time t whose last trigger was at time last; prices and
\* volumes in cents, ratios in micro.
GuardPriceAndBaseline(m) == m.lastPrice > 0 /\ m.ewma5mVolumeBaseline > 0
GuardVolatilityKnown(m) == Len(m.returnHistory) >= 30 /\ m.volatility30s > 0
GuardDayVolume(m) == m.ticker24hrVolumeUsdt >= 1000000 * 100
GuardLiquidity(m) ==
    /\ Min(m.depth5BidVolume, m.depth5AskVolume) * m.bidAskMidpoint >= 2500 * 100
    /\ m.current1sVolumeSum >= 500 * 100
GuardCooldown(last, t) == t - last >= 6000
GuardQuotes(m) == m.bestAsk > m.bestBid /\ m.bestBid > 0
GuardSpread(m) ==
    /\ (m.bestAsk - m.bestBid) * 1000 <= 3 * m.bestAsk
    /\ SpreadPct(m) * 100 <= 3 * (InstantVol(m) + 10000)
AllGuardsHold(m, last, t) ==
    /\ GuardPriceAndBaseline(m) /\ GuardVolatilityKnown(m) /\ GuardDayVolume(m)
    /\ GuardLiquidity(m) /\ GuardCooldown(last, t) /\ GuardQuotes(m)
    /\ GuardSpread(m) /\ isVolumeSpike(m) /\ ~NoPriceImpulse(m, t)

TierCap(tier) ==
    CASE tier = "mega" -> 500000 [] tier = "large" -> 800000 [] tier = "mid" -> 1200000
      [] tier = "small" -> 2000000 [] tier = "micro" -> 3000000

\* C4: a tick emits no signal for a monitor whose volatility5m is above the
\* cap of its tier or below 0.05.
C4_NoSignalOutsideVolatilityRange ==
    step = "tick" =>
        \A s \in Symbols :
            (mon[s].volatility5m > TierCap(mon[s].marketCapTier) \/ mon[s].volatility5m < 50000)
                => ~EmittedAt(s, now)

\* A tick of a large-tier monitor with volatility5m between 0.80 and 1.20
\* that emitted nothing though every other guard held.
C4_Witness ==
    /\ step = "tick"
    /\ \E s \in Symbols :
          /\ mon[s].marketCapTier = "large"
          /\ mon[s].volatility5m > 800000 /\ mon[s].volatility5m <= 1200000
          /\ AllGuardsHold(mon[s], mon[s].lastSignalTriggerTime, now)
          /\ ~EmittedAt(s, now)

\* The jobs of a queue that carry an id, in the order they were added, and
\* the jobs of both queues.
JobsOf(queue, id) == SelectSeq(queue, LAMBDA job : job.data.id = id)
AllJobs == {priceQueue[i] : i \in 1..Len(priceQueue)} \cup {orderQueue[i] : i \in 1..Len(orderQueue)}

\* C5: an emission never has more than one document, and has exactly one,
\* under the id its call holds, once insertOne has resolved; a call that
\* resolved has added exactly four jobs under that id: gate_order with
\* tOffset 3, 10, 30 and delays 3000, 10000, 30000, and gate_price with delay
\* 1 860 000 and the trigger time as timestamp, all with removeOnComplete and
\* removeOnFail.
C5_PersistedOnceWithFourTasks ==
    \A k \in 1..Len(tasks) :
        LET id == tasks[k].insertedId
            docs == {i \in 1..Len(signals) : signals[i].vector = tasks[k].vector}
            orders == JobsOf(orderQueue, id)
            prices == JobsOf(priceQueue, id)
        IN /\ Cardinality(docs) = (IF id = Null THEN 0 ELSE 1)
           /\ \A i \in docs : signals[i].id = id
           /\ (tasks[k].pc \notin {"insertOne", "rejected"}) => id # Null
           /\ tasks[k].pc = "resolved" =>
                /\ Len(orders) = 3
                /\ \A n \in 1..3 :
                      /\ orders[n].name = "gate_orderbook"
                      /\ orders[n].data.tOffset = <<3, 10, 30>>[n]
                      /\ orders[n].opts.delay = <<3000, 10000, 30000>>[n]
                      /\ orders[n].opts.removeOnComplete /\ orders[n].opts.removeOnFail
                /\ Len(prices) = 1
                /\ prices[1].name = "gate_price"
                /\ prices[1].opts.delay = 1860000
                /\ prices[1].data.timestamp = TriggerTime(k)
                /\ prices[1].opts.removeOnComplete /\ prices[1].opts.removeOnFail

\* A call of checkSignal that resolved: its persist and its four enqueues
\* succeeded.
C5_Witness == \E k \in 1..Len(tasks) : tasks[k].pc = "resolved"

\* C6: every job of the two queues carries the id of a document that is in
\* the store, and a call whose insertOne rejected has attempted no enqueue.
C6_NoTaskWithoutPersistedSignal ==
    /\ \A job \in AllJobs : \E i \in 1..Len(signals) : signals[i].id = job.data.id
    /\ \A k \in 1..Len(tasks) :
          (tasks[k].pc = "rejected" /\ tasks[k].insertedId = Null)
              => tasks[k].attempted = <<[call |-> "insertOne", tOffset |-> 0]>>

\* A call whose insertOne rejected, next to another whose jobs are queued.
C6_Witness ==
    /\ \E k \in 1..Len(tasks) : tasks[k].pc = "rejected" /\ tasks[k].insertedId = Null
    /\ AllJobs # {}

\* The enqueues of a signal: the price job and the three orderbook jobs.
FourEnqueues ==
    {[call |-> "priceQueue.add", tOffset |-> 0]}
        \cup {[call |-> "orderQueue.add", tOffset |-> o] : o \in {3, 10, 30}}

\* C7: a call of checkSignal that persisted its signal and has ended,
\* whether it resolved or rejected, has attempted each of the four enqueues.
C7_EnqueuesAttemptedIndependently ==
    \A k \in 1..Len(tasks) :
        (tasks[k].pc \in {"resolved", "rejected"} /\ tasks[k].insertedId # Null)
            => FourEnqueues \subseteq {tasks[k].attempted[i] : i \in 1..Len(tasks[k].attempted)}

\* C8: a step that is neither a tick nor a stream handler, that is a
\* continuation of checkSignal after one of its awaits, leaves every monitor
\* as it was.
C8_ContinuationsLeaveMonitorsAlone ==
    [][(ticks' = ticks /\ events' = events) => mon' = mon]_vars

\* A continuation that ran after a later tick: the call was suspended while
\* that tick ran.
C8_Witness ==
    /\ step = "io"
    /\ \E k \in 1..Len(tasks) : tasks[k].pc # "insertOne" /\ TriggerTime(k) < now

\* C9: the store of a pair holds a bar for every second from the second of
\* the first trade up to the second before the bar in memory, and a bar of
\* volume 0 is flat.
C9_BarForEverySecond ==
    \A pair \in Symbols :
        builders[pair].secBucketTS # Null =>
            /\ \A s \in TapeStartSec..(builders[pair].secBucketTS - 1) :
                  \E e \in secbar[pair] : e.score = s
            /\ \A e \in secbar[pair] :
                  e.member[5] = 0 =>
                      e.member[1] = e.member[4] /\ e.member[2] = e.member[4]
                          /\ e.member[3] = e.member[4]

\* C10: the store of a pair never holds two bars for one second.
C10_OneBarPerSecond ==
    \A pair \in Symbols :
        \A e1, e2 \in secbar[pair] : e1.score = e2.score => e1 = e2

\* The last call made from outside.
LastCall == history[Len(history)]

\* The entries of a sorted set whose second lies in the window.
StoredInWindow(zset, startMs, endMs) ==
    {e \in zset : startMs \div 1000 <= e.score /\ e.score <= endMs \div 1000}

BarOfEntry(e) ==
    [t |-> e.score * 1000, open |-> e.member[1], high |-> e.member[2], low |-> e.member[3],
     close |-> e.member[4], volume |-> e.member[5]]

\* C11: getSecBars(pair, startMs, endMs) returns exactly the stored bars of
\* the pair whose second lies in [floor(startMs/1000), floor(endMs/1000)],
\* both ends included, in ascending time order, each with the five values
\* that were written and t = second * 1000.
C11_ReadReturnsStoredBarsOfWindow ==
    step = "read" =>
        LET bars == LastCall.result
            stored == StoredInWindow(secbar[LastCall.pair], LastCall.startMs, LastCall.endMs)
        IN /\ Len(bars) = Cardinality(stored)
           /\ \A e \in stored : \E i \in 1..Len(bars) : bars[i] = BarOfEntry(e)
           /\ \A i \in 1..(Len(bars) - 1) : bars[i].t <= bars[i + 1].t

\* A read whose window ends on a second that holds a bar, starts on a
\* second that holds a bar, and leaves a stored bar out.
C11_Witness ==
    /\ step = "read"
    /\ Len(LastCall.result) >= 2
    /\ LastCall.result[1].t = (LastCall.startMs \div 1000) * 1000
    /\ LastCall.result[Len(LastCall.result)].t = (LastCall.endMs \div 1000) * 1000
    /\ Cardinality(secbar[LastCall.pair]) > Len(LastCall.result)

\* The trades passed to handleTradeTick for the pair whose second is the
\* second of the pair's current bar, in order of arrival.
TradesOfBar(pair) ==
    SelectSeq(history, LAMBDA h : /\ h.call = "handleTradeTick"
                                  /\ h.pair = pair
                                  /\ h.tsMs \div 1000 = builders[pair].secBucketTS)

Added == [i \in 1..Len(history) |-> history[i].item]

\* The last k items of a sequence.
LastOf(seq, k) == SubSeq(seq, Len(seq) - k + 1, Len(seq))

\* C13: for a ring buffer of capacity N and every sequence of add calls,
\* 0 <= size <= N, and toArray() returns exactly size elements: the last
\* min(n, N) items added, in insertion order, where get(0) is the oldest
\* and getNewest() the most recently added; add on a full buffer drops
\* exactly the oldest element.
C13_BufferHoldsLastItems ==
    LET n == Len(Added)
        array == BufferToArray(circular.buffer)
        size == BufferSize(circular.buffer)
    IN /\ 0 <= size /\ size <= circular.capacity
       /\ Len(array) = size
       /\ array = LastOf(Added, Min(n, circular.capacity))
       /\ n > 0 => /\ BufferGet(circular.buffer, 0) = Added[n - size + 1]
                   /\ BufferNewest(circular.buffer) = Added[n]

\* A full buffer that has dropped two items or more, and whose oldest and
\* newest items differ.
C13_Witness ==
    /\ BufferSize(circular.buffer) = circular.capacity
    /\ circular.capacity >= 2
    /\ Len(history) >= circular.capacity + 2
    /\ BufferGet(circular.buffer, 0) # BufferNewest(circular.buffer)

\* The stream types the handler knows.
StreamTypes == {<<"aggTrade">>, <<"ticker">>, <<"bookTicker">>, <<"depth5", "100ms">>}

\* TRUE when the message has a stream name and data, and when its name has
\* a known symbol before the first "@" and a known type after it.
IsEvent(message) == "stream" \in DOMAIN message /\ "data" \in DOMAIN message

IsKnownEvent(message) ==
    /\ Len(message.stream) >= 2
    /\ ToUpperCase(message.stream[1]) \in DOMAIN mon
    /\ Tail(message.stream) \in StreamTypes

\* C14: an event whose upper-cased stream prefix is not a key of the
\* monitor map, or whose stream type is not aggTrade, ticker, bookTicker or
\* depth5@100ms, changes no monitor and no price-tape state; an event for a
\* known symbol changes only that symbol's monitor, and only aggTrade
\* events reach the price tape, each forwarded once with (symbol, price,
\* price * qty, eventTimeMs).
C14_EventsRoutedBySymbolAndType ==
    [][step' = "message" /\ IsEvent(history'[Len(history')].message) =>
          LET message == history'[Len(history')].message
              symbol == ToUpperCase(message.stream[1])
              data == message.data
          IN IF ~IsKnownEvent(message)
             THEN mon' = mon /\ builders' = builders /\ secbar' = secbar
             ELSE /\ \A s \in DOMAIN mon \ {symbol} :
                        mon'[s] = mon[s] /\ builders'[s] = builders[s] /\ secbar'[s] = secbar[s]
                  /\ IF Tail(message.stream) = <<"aggTrade">>
                     THEN LET after == onTrade(builders[symbol], secbar[symbol], data.p,
                                               Times(data.p, data.q), data.E)
                          IN builders'[symbol] = after.builder /\ secbar'[symbol] = after.zset
                     ELSE builders' = builders /\ secbar' = secbar]_vars

\* An event for an unknown symbol arrived, and the last event was a trade
\* of one pair, forwarded to its bar, while the other pair has traded too.
C14_Witness ==
    /\ step = "message"
    /\ \E i \in 1..Len(history) :
          IsEvent(history[i].message) /\ history[i].message.stream[1] = "doge_usdt"
    /\ IsEvent(LastCall.message)
    /\ LastCall.message.stream = <<"eth_usdt", "aggTrade">>
    /\ builders["ETH_USDT"].close = 50 /\ builders["ETH_USDT"].volume = 200
    /\ mon["BTC_USDT"].lastPrice = 100
    /\ builders["BTC_USDT"].volume = 200

\* TRUE when a numeric field the handler of the event needs is missing or
\* not a finite number.
IsMalformed(message) ==
    LET data == message.data
        streamType == Tail(message.stream)
    IN CASE streamType = <<"aggTrade">> ->
                ~IsFinite(data.p) \/ ~IsFinite(data.q) \/ ~IsFinite(data.E)
         [] streamType = <<"ticker">> -> ~IsFinite(data.q)
         [] streamType = <<"bookTicker">> -> ~IsFinite(data.b) \/ ~IsFinite(data.a)
         [] OTHER -> FALSE

\* C15: an aggTrade, ticker or bookTicker event whose required numeric
\* field is missing or non-finite is dropped: the monitor's lastPrice, trade
\* ring, ticker fields and quotes, and the price tape's current bar and
\* store, are all unchanged by it.
C15_MalformedEventsDropped ==
    [][(/\ step' = "message"
        /\ IsEvent(history'[Len(history')].message)
        /\ IsKnownEvent(history'[Len(history')].message)
        /\ IsMalformed(history'[Len(history')].message)) =>
          LET symbol == ToUpperCase(history'[Len(history')].message.stream[1])
          IN /\ mon'[symbol].lastPrice = mon[symbol].lastPrice
             /\ mon'[symbol].aggTrades = mon[symbol].aggTrades
             /\ mon'[symbol].ticker24hrVolumeUsdt = mon[symbol].ticker24hrVolumeUsdt
             /\ mon'[symbol].bestBid = mon[symbol].bestBid
             /\ mon'[symbol].bestAsk = mon[symbol].bestAsk
             /\ mon'[symbol].bidAskMidpoint = mon[symbol].bidAskMidpoint
             /\ builders' = builders
             /\ secbar' = secbar]_vars

\* The tasks a step appended.
NewTasks == SubSeq(tasks', Len(tasks) + 1, Len(tasks'))

\* C16: on every tick each monitor in the map is visited exactly once, and
\* for each monitor performPeriodicCalculations has completed before that
\* monitor's gate is evaluated: one sample is added to each monitor's
\* histories, the 1 s aggregates are those of this tick, the gate's
\* decision is the one the updated state gives, and the emissions come in
\* the order of the map with the values of this tick.
C16_PeriodicBeforeGateOncePerMonitor ==
    [][ticks' = ticks + 1 =>
          /\ \A s \in DOMAIN mon :
                LET updated == [mon'[s] EXCEPT
                                  !.lastSignalTriggerTime = mon[s].lastSignalTriggerTime]
                IN /\ mon'[s].accelHistory =
                          BufferAdd(mon[s].accelHistory, 60, mon'[s].volumeAccel)
                   /\ mon'[s].priceSlopeHist =
                          BufferAdd(mon[s].priceSlopeHist, 40, mon'[s].priceSlope)
                   /\ mon'[s].current1sTradeCount =
                          Sum1s(mon[s].aggTrades, Len(mon[s].aggTrades), now' - 1000).trades1s
                   /\ Triggers(updated, now') <=> mon'[s].lastSignalTriggerTime = now'
                   /\ Triggers(updated, now') <=> EmitsFor(s)
          /\ [i \in 1..Len(NewTasks) |-> NewTasks[i].symbol] =
                SelectSeq(MapOrder, LAMBDA s : mon'[s].lastSignalTriggerTime = now')
          /\ \A i \in 1..Len(NewTasks) :
                NewTasks[i].vector.current1sVolumeUsdt =
                    mon'[NewTasks[i].symbol].current1sVolumeSum]_vars

\* After a tick both monitors have emitted, and one of them did so on
\* aggregates that differ from those of the tick before.
C16_Witness ==
    /\ step = "tick"
    /\ \A s \in DOMAIN mon : mon[s].lastSignalTriggerTime = now
    /\ Len(tasks) >= 2
    /\ tasks[Len(tasks)].symbol = "ETH_USDT"
    /\ tasks[Len(tasks) - 1].symbol = "BTC_USDT"
    /\ tasks[Len(tasks)].vector.current1sVolumeUsdt # tasks[Len(tasks) - 1].vector.current1sVolumeUsdt

\* The notional of the trades i..Len(trades) of a ring taken by the buyer
\* (taker |-> "buy"), by the seller ("sell"), or of all of them ("any").
RECURSIVE NotionalFrom(_, _, _)
NotionalFrom(trades, i, taker) ==
    IF i > Len(trades) THEN 0
    ELSE (IF \/ taker = "any"
             \/ taker = "buy" /\ ~trades[i].isBuyerMaker
             \/ taker = "sell" /\ trades[i].isBuyerMaker
          THEN trades[i].price * trades[i].quantity ELSE 0)
         + NotionalFrom(trades, i + 1, taker)

\* C18: a trade whose eventTime is older than now - 1000 at tick time
\* contributes nothing to current1sVolumeSum, current1sTradeCount or the
\* taker buy and sell sums of that tick (they are the sums over trades of
\* the ring none of which is that old), but on arrival it was still
\* appended to the trade ring and set lastPrice.
C18_LateTradeKeptButNotCounted ==
    [][/\ ticks' = ticks + 1 =>
            \A s \in DOMAIN mon :
                LET trades == mon[s].aggTrades
                    first == Len(trades) - mon'[s].current1sTradeCount + 1
                IN /\ first >= 1
                   /\ \A i \in first..Len(trades) : trades[i].eventTime >= now' - 1000
                   /\ mon'[s].current1sVolumeSum = NotionalFrom(trades, first, "any")
                   /\ mon'[s].current1sTakerBuyVolume = NotionalFrom(trades, first, "buy")
                   /\ mon'[s].current1sTakerSellVolume = NotionalFrom(trades, first, "sell")
                   /\ mon'[s].aggTrades = trades
       /\ step' = "message" =>
            LET data == history'[Len(history')].message.data
                symbol == ToUpperCase(history'[Len(history')].message.stream[1])
            IN /\ mon'[symbol].aggTrades =
                      BufferAdd(mon[symbol].aggTrades, AGG_TRADE_BUFFER_SIZE,
                                [price |-> data.p, quantity |-> data.q, eventTime |-> data.E,
                                 isBuyerMaker |-> data.m])
               /\ mon'[symbol].lastPrice = data.p]_vars

\* After a tick: the newest trade of one ring is exactly one second old and
\* is the only one counted, the trade before it arrived late and is still
\* in the ring; the newest trade of the other ring arrived late, set
\* lastPrice and is not counted.
C18_Witness ==
    /\ step = "tick"
    /\ LET trades == mon["BTC_USDT"].aggTrades
       IN /\ trades[Len(trades)].eventTime = now - 1000
          /\ trades[Len(trades) - 1].eventTime < now - 1000
          /\ trades[Len(trades) - 1].price = 10001
          /\ mon["BTC_USDT"].current1sTradeCount = 1
          /\ mon["BTC_USDT"].current1sTakerSellVolume = 20012
    /\ LET trades == mon["ETH_USDT"].aggTrades
       IN /\ trades[Len(trades)].eventTime < now - 1000
          /\ mon["ETH_USDT"].lastPrice = 10002
          /\ mon["ETH_USDT"].current1sTradeCount = 0

\* The entry the current bar of a builder is stored as.
EntryOfBar(b) ==
    [member |-> <<b.open, b.high, b.low, b.close, b.volume>>, score |-> b.secBucketTS]

\* C17: after shutdown has been requested no further tick runs, the
\* transport is disconnected (it tracks no socket), and when the process
\* has exited the current in-memory bar of every pair that has received a
\* trade is in the store.
C17_ShutdownStopsTicksTransportAndFlushes ==
    stopped.requested =>
        /\ ticks = stopped.ticks
        /\ wsArr = <<>>
        /\ ~alive => \A pair \in DOMAIN builders :
                        builders[pair].secBucketTS # Null =>
                            EntryOfBar(builders[pair]) \in secbar[pair]

\* The documents of mongo.prices that belong to the signal of job i.
DocsOf(i) == SelectSeq(priceDocs, LAMBDA doc : doc.signal_id = priceQueue[i].data.id)

\* C19: when the tape store cannot be read, the trajectory task is
\* considered failed by the queue (its handler rejects) and nothing is
\* persisted for it.
C19_UnreadableTapeFailsTheTask ==
    \A i \in 1..Len(jobs) :
        jobs[i].read = "rejected" => jobs[i].state = "failed" /\ DocsOf(i) = <<>>

\* C20: when the tape holds no bar in the window of a trajectory task, the
\* worker still persists exactly one price document for that signal, with
\* sigma30m = null and one row per grid offset, each carrying price = null
\* and volume = 0 (the insert itself succeeding).
C20_EmptyWindowStillPersisted ==
    \A i \in 1..Len(jobs) :
        /\ Len(DocsOf(i)) <= 1
        /\ (/\ jobs[i].state = "completed"
            /\ jobs[i].read = "resolved"
            /\ jobs[i].bars = <<>>
            /\ jobs[i].insert # "rejected") =>
            /\ Len(DocsOf(i)) = 1
            /\ DocsOf(i)[1].sigma30m = Null
            /\ Len(DocsOf(i)[1].prices) = Len(offsets)
            /\ \A k \in 1..Len(offsets) :
                  DocsOf(i)[1].prices[k] = [t_offset_s |-> offsets[k], price |-> Null, volume |-> 0]

\* Both tasks are done: the tape held bars, but none in the window of
\* either task, and each signal has its document.
C20_Witness ==
    /\ \A i \in 1..Len(jobs) : jobs[i].state = "completed" /\ jobs[i].bars = <<>>
    /\ secbar["BTC_USDT"] # {}
    /\ Len(priceDocs) = 2
    /\ priceDocs[1].signal_id # priceDocs[2].signal_id

\* ------------------------------------------------------------------ C21
\* The bars the job of a document read, and the start of its window.
BarsOf(doc) == jobs[doc.signal_id].bars
StartOf(doc) == priceQueue[doc.signal_id].data.timestamp

\* Row k of the document is taken from bar j of the bars read.
RowIsBar(doc, k, j) ==
    /\ doc.prices[k].price = BarsOf(doc)[j].close
    /\ doc.prices[k].volume = BarsOf(doc)[j].volume

\* C21: a trajectory has one row per offset of the grid, in grid order;
\* the row of offset s holds the close and the volume of the first bar
\* with t >= start + s * 1000, or of the last bar read when there is no
\* such bar; and when the tape holds a bar for every second of
\* [T, T + 1800 s), the row of offset 1800 is the bar of second
\* T / 1000 + 1799.
C21_RowsFollowTheGrid ==
    \A d \in 1..Len(priceDocs) :
        LET doc == priceDocs[d]
            bars == BarsOf(doc)
            T == StartOf(doc)
            seconds == (T \div 1000)..((T \div 1000) + 1799)
        IN /\ Len(doc.prices) = Len(offsets)
           /\ \A k \in 1..Len(offsets) :
                 LET target == T + offsets[k] * 1000
                     atOrAfter == {j \in 1..Len(bars) : bars[j].t >= target}
                 IN /\ doc.prices[k].t_offset_s = offsets[k]
                    /\ atOrAfter # {}
                          => \E j \in atOrAfter :
                                (\A h \in atOrAfter : j <= h) /\ RowIsBar(doc, k, j)
                    /\ (bars # <<>> /\ atOrAfter = {}) => RowIsBar(doc, k, Len(bars))
           /\ seconds \subseteq {e.score : e \in secbar["BTC_USDT"]}
                 => /\ doc.prices[Len(offsets)].t_offset_s = 1800
                    /\ \E e \in secbar["BTC_USDT"] :
                          /\ e.score = (T \div 1000) + 1799
                          /\ doc.prices[Len(offsets)].price = e.member[4]
                          /\ doc.prices[Len(offsets)].volume = e.member[5]

\* Both jobs have persisted the trajectory of a window with a bar for
\* every second: the rows of offset 1800 are the bars of the last second
\* of each window.
C21_Witness ==
    /\ Len(priceDocs) = 2
    /\ \A d \in 1..2 : Len(BarsOf(priceDocs[d])) = 1800
    /\ \E d \in 1..2 : priceDocs[d].signal_id = 1 /\ priceDocs[d].prices[70].price = 101
                         /\ priceDocs[d].prices[70].volume = 1809
    /\ \E d \in 1..2 : priceDocs[d].signal_id = 2 /\ priceDocs[d].prices[70].price = 102
                         /\ priceDocs[d].prices[70].volume = 1810

\* ------------------------------------------------------------------ C22
\* The places of the bars read whose earlier close is positive: each gives
\* one log return.
ReturnPlaces(bars) == {i \in 2..Len(bars) : bars[i - 1].close > 0}

\* C22: sigma30m is the deviation of the log returns between consecutive
\* closes whose earlier close is positive, and it is null whenever there
\* are fewer than two such returns.
C22_SigmaNullBelowTwoReturns ==
    \A d \in 1..Len(priceDocs) :
        LET doc == priceDocs[d]
            bars == BarsOf(doc)
        IN IF Cardinality(ReturnPlaces(bars)) < 2
           THEN doc.sigma30m = Null
           ELSE doc.sigma30m = PopulationSigma(CloseReturns(bars, 2))

\* ------------------------------------------------------------------ C23
\* The snapshots stored for orderbook job i: those of the documents of its
\* signal id that carry its offset.
SnapshotsOf(i) ==
    LET data == orderQueue[i].data
    IN {<<k, n>> \in (1..Len(orderbooks)) \X (1..Len(OrderOffsets)) :
           /\ orderbooks[k].signal_id = data.id
           /\ n <= Len(orderbooks[k].snapshots)
           /\ orderbooks[k].snapshots[n].t_offset_s = data.tOffset}

\* The job has run to its end with its snapshot read and its update made.
Appended(i) == jobs[i].fetch = "resolved" /\ jobs[i].state = "completed"

\* C23: an orderbook task whose depth fetch failed, the retries of
\* restRequest used up, has written nothing and its handler has ended
\* without raising; the tasks of the other offsets of the signal that read
\* their snapshot have appended it all the same.
C23_FailedFetchSkipsOnlyItsSnapshot ==
    \A i \in 1..Len(jobs) :
        jobs[i].fetch = "rejected"
            => /\ jobs[i].attempt = maxRetries + 1
               /\ jobs[i].state = "completed"
               /\ SnapshotsOf(i) = {}
               /\ \A j \in 1..Len(jobs) : Appended(j) => Cardinality(SnapshotsOf(j)) = 1

\* The fetch of offset 3 failed, and both siblings appended their
\* snapshots, the one of offset 10 after retries of its own.
C23_Witness ==
    /\ jobs[1].fetch = "rejected"
    /\ Appended(2) /\ Appended(3)
    /\ Len(orderbooks) = 1
    /\ Len(orderbooks[1].snapshots) = 2
    /\ orderbooks[1].snapshots[1].t_offset_s = 30
    /\ orderbooks[1].snapshots[2].t_offset_s = 10
    /\ jobs[2].attempt > 0

TimeCache(m) ==
    <<m.cachedHourOfDay, m.cachedDayOfWeek, m.cachedIsWeekend, m.lastTimeCacheUpdate>>

\* C25: a tick at time t recomputes the cached hour, day of week and
\* weekend flag of a monitor when t is at least 60000 ms after the previous
\* refresh, and otherwise leaves them and lastTimeCacheUpdate as they
\* were; two refreshes in a row are at least 60 s apart.
C25_TimeCacheRefreshedOncePerMinute ==
    [][step' = "tick" =>
        \A s \in DOMAIN mon :
            LET day == ((now' \div 86400000) + 4) % 7
            IN /\ IF now' - mon[s].lastTimeCacheUpdate >= 60000
                  THEN TimeCache(mon'[s]) =
                           <<(now' % 86400000) \div 3600000, day, day = 0 \/ day = 6, now'>>
                  ELSE TimeCache(mon'[s]) = TimeCache(mon[s])
               /\ mon'[s].lastTimeCacheUpdate # mon[s].lastTimeCacheUpdate
                     => mon'[s].lastTimeCacheUpdate - mon[s].lastTimeCacheUpdate >= 60000]_vars

\* A tick an hour after the start has refreshed the cache, and the tick
\* 59 999 ms after it has kept that cache of a Thursday morning.
C25_Witness ==
    /\ step = "tick" /\ ticks = 2
    /\ \A s \in DOMAIN mon :
          /\ now - mon[s].lastTimeCacheUpdate = 59999
          /\ mon[s].lastTimeCacheUpdate = StartTime + 3600000
          /\ TimeCache(mon[s]) = <<9, 4, FALSE, StartTime + 3600000>>

\* ------------------------------------------------------------------ C26
\* A channel that names a stream of the four kinds after its first "@",
\* in whatever case.
IsValidChannel(ch) ==
    /\ Len(ch) >= 2
    /\ [i \in 1..(Len(ch) - 1) |-> ToLowerCase(ch[i + 1])]
           \in {<<"aggtrade">>, <<"ticker">>, <<"bookticker">>, <<"depth5", "100ms">>}

\* The topics of the valid channels of a list, in the order of the list.
ValidTopics(channels) ==
    LET valid == SelectSeq(channels, IsValidChannel)
    IN [i \in 1..Len(valid) |-> mapChannelToTopic(valid[i])]

\* The number of topics in the chunks of the sockets before socket c.
TopicsBefore(tracked, c) == SumSeq([k \in 1..(c - 1) |-> Len(tracked[k].topicChunk)])

\* C26: connect(channels) spawns one socket per chunk of at most 180
\* topics; the chunks, one after the other, are the topics of the valid
\* channels in their order, so that every valid topic is in exactly one
\* chunk and the channels that map to no topic are in none.
C26_ConnectChunksTopics ==
    [][step' = "connect" =>
        LET topics == ValidTopics(history'[1].channels)
        IN /\ Len(wsArr') = (Len(topics) + 179) \div 180
           /\ TopicsBefore(wsArr', Len(wsArr') + 1) = Len(topics)
           /\ \A c \in 1..Len(wsArr') :
                 /\ wsArr'[c].readyState = "CONNECTING"
                 /\ Len(wsArr'[c].topicChunk) \in 1..180
                 /\ \A j \in 1..Len(wsArr'[c].topicChunk) :
                       wsArr'[c].topicChunk[j] = topics[TopicsBefore(wsArr', c) + j]]_vars

\* connect was called with channels that map to no topic among 181 that
\* do: two sockets, the second for the one topic past the first 180.
C26_Witness ==
    /\ step = "connect"
    /\ Len(history[1].channels) = 183
    /\ Len(wsArr) = 2
    /\ Len(wsArr[1].topicChunk) = 180
    /\ wsArr[2].topicChunk = <<[channel |-> "spot.trades", payload |-> <<"DOGE_USDT">>]>>

\* ------------------------------------------------------------------ C27
\* The tracked sockets of a chunk that are open or connecting.
LiveSockets(tracked, topicChunk) ==
    {i \in 1..Len(tracked) : /\ tracked[i].topicChunk = topicChunk
                             /\ tracked[i].readyState \in {"OPEN", "CONNECTING"}}

\* C27: the close of a socket clears its ping timer and schedules, after
\* the reconnect delay of 2000 ms, the spawn of one socket for the same
\* topic chunk; when that timeout fires exactly one socket is added, for
\* that chunk; no chunk ever has two sockets that are open or connecting;
\* and neither step changes a monitor.
C27_ReconnectKeepsChunk ==
    [][/\ step' = "close" =>
            \E i \in 1..Len(wsArr) :
                /\ wsArr' = [wsArr EXCEPT ![i].readyState = "CLOSED", ![i].ping = FALSE]
                /\ timers' = Append(timers, [topicChunk |-> wsArr[i].topicChunk,
                                             delay |-> 2000])
                /\ mon' = mon
       /\ step' = "respawn" =>
            /\ timers # <<>> /\ timers' = Tail(timers)
            /\ Len(wsArr') = Len(wsArr) + 1
            /\ SubSeq(wsArr', 1, Len(wsArr)) = wsArr
            /\ wsArr'[Len(wsArr')].topicChunk = Head(timers).topicChunk
            /\ wsArr'[Len(wsArr')].readyState = "CONNECTING"
            /\ mon' = mon
       /\ \A i \in 1..Len(wsArr') :
            Cardinality(LiveSockets(wsArr', wsArr'[i].topicChunk)) <= 1]_vars

\* The socket of the first of three chunks delivered a trade, lost its
\* connection and has just been spawned again for the same 180 topics.
C27_Witness ==
    /\ step = "respawn"
    /\ events > 0
    /\ Len(wsArr) = 4
    /\ wsArr[1].readyState = "CLOSED" /\ ~wsArr[1].ping
    /\ wsArr[4].readyState = "CONNECTING"
    /\ wsArr[4].topicChunk = wsArr[1].topicChunk
    /\ Len(wsArr[4].topicChunk) = 180
    /\ mon["BTC_USDT"].aggTrades # WarmMonitor("BTC_USDT", "mid", 100).aggTrades

\* ------------------------------------------------------------------ C28
\* The best bid, the best ask and their midpoint of a monitor.
Quotes(m) == <<m.bestBid, m.bestAsk, m.bidAskMidpoint>>

\* C28: a book ticker overwrites bestBid (bestAsk) of its monitor only
\* with a parsed value that is finite and above 0 and otherwise leaves it
\* as it was; the midpoint is set to (bestBid + bestAsk) / 2 exactly when
\* both are above 0 afterwards; no other step writes the three; so a best
\* bid or ask that is positive stays positive and finite.
C28_QuotesOnlyFromValidBookTickers ==
    [][\A s \in DOMAIN mon :
         LET m == mon[s]
             last == history'[Len(history')]
             isBookTicker == /\ step' = "message"
                             /\ last.message.stream = <<"btc_usdt", "bookTicker">>
                                \/ last.message.stream = <<"eth_usdt", "bookTicker">>
                             /\ ToUpperCase(last.message.stream[1]) = s
             b == last.message.data.b
             a == last.message.data.a
             bid == IF b # NaN /\ b > 0 THEN b ELSE m.bestBid
             ask == IF a # NaN /\ a > 0 THEN a ELSE m.bestAsk
         IN /\ IF isBookTicker
               THEN Quotes(mon'[s]) =
                        <<bid, ask, IF bid > 0 /\ ask > 0 THEN (bid + ask) \div 2
                                    ELSE m.bidAskMidpoint>>
               ELSE Quotes(mon'[s]) = Quotes(m)
            /\ m.bestBid > 0 => mon'[s].bestBid > 0 /\ mon'[s].bestBid # NaN
            /\ m.bestAsk > 0 => mon'[s].bestAsk > 0 /\ mon'[s].bestAsk # NaN]_vars

\* After a book ticker with both sides valid, one with an unparsable bid
\* and a new ask has replaced the ask only and moved the midpoint.
C28_Witness ==
    /\ step = "message" /\ Len(history) = 2
    /\ history[1].message.data = [b |-> 99, a |-> 98]
    /\ history[2].message.data = [b |-> NaN, a |-> 101]
    /\ Quotes(mon["BTC_USDT"]) = <<99, 101, 100>>

\* C29: returnHistory gets at most one return per 1000 ms. In every step
\* the history of a monitor holds at most 300 entries whose times are at
\* least 1000 ms apart from one to the next; it changes only by one entry
\* stamped with the time of the tick, added at the end (the oldest one
\* dropped when 300 are held), and only when a reference price was
\* already recorded; and the tick that finds a price and no reference
\* records the price as the reference and adds nothing.
C29_ReturnsAtMostOncePerSecond ==
    [][\A s \in DOMAIN mon :
          LET before == mon[s].returnHistory
              after == mon'[s].returnHistory
          IN /\ Len(after) <= 300
             /\ \A i \in 1..(Len(after) - 1) : after[i + 1].time - after[i].time >= 1000
             /\ after # before =>
                    /\ mon[s].lastPriceForReturn > 0
                    /\ after[Len(after)].time = now'
                    /\ after = (IF Len(before) = 300 THEN Tail(before) ELSE before)
                                   \o <<after[Len(after)]>>
             /\ (step' = "tick" /\ mon[s].lastPrice > 0 /\ mon[s].lastPriceForReturn = 0) =>
                    /\ after = before
                    /\ mon'[s].lastPriceForReturn = mon[s].lastPrice
                    /\ mon'[s].lastReturnCalcTime = now']_vars

\* Two ticks have each added a return, the second one to a history that
\* already held 300.
C29_Witness ==
    \E s \in DOMAIN mon :
        /\ step = "tick" /\ now > StartTime
        /\ Len(mon[s].returnHistory) = 300
        /\ mon[s].returnHistory[300].time = now
        /\ mon[s].returnHistory[298].time = StartTime

\* C30: the three volume EWMAs are seeded to the first positive vol1s. A
\* tick on a monitor whose three EWMAs are still 0 leaves them all 0 when
\* its vol1s is 0, and leaves them all equal to vol1s when its vol1s is
\* positive.
C30_EwmasSeededToFirstVolume ==
    [][\A s \in DOMAIN mon :
          (/\ step' = "tick"
           /\ mon[s].ewma1sVolumeFast = 0
           /\ mon[s].ewma1mVolumeBaseline = 0
           /\ mon[s].ewma5mVolumeBaseline = 0) =>
              LET v == mon'[s].current1sVolumeSum
              IN /\ mon'[s].ewma1sVolumeFast = v
                 /\ mon'[s].ewma1mVolumeBaseline = v
                 /\ mon'[s].ewma5mVolumeBaseline = v]_vars

\* ------------------------------------------------------------------ C31
StrictlyIncreasing(prices) ==
    \A i \in 1..(Len(prices) - 1) :
        IsFinite(prices[i]) /\ IsFinite(prices[i + 1]) /\ prices[i] < prices[i + 1]

StrictlyDecreasing(prices) ==
    \A i \in 1..(Len(prices) - 1) :
        IsFinite(prices[i]) /\ IsFinite(prices[i + 1]) /\ prices[i] > prices[i + 1]

\* C31: rsiValue is always between 0 and 100; it is 50 when both averages
\* are zero and 100 when only the average loss is zero; and a monitor that
\* has seen nothing but 10 or more strictly increasing (decreasing) prices
\* since its construction has rsiValue 100 (0). The ring of 20 prices is
\* the whole feed while it holds fewer than 20.
C31_RsiBoundedAndExtreme ==
    \A s \in DOMAIN mon :
        LET m == mon[s]
            fed == m.rsiPriceHistory
        IN /\ IsFinite(m.rsiValue) /\ 0 <= m.rsiValue /\ m.rsiValue <= 1000
           /\ (m.avgGain = 0 /\ m.avgLoss = 0) => m.rsiValue = 500
           /\ (m.avgGain # 0 /\ m.avgLoss = 0) => m.rsiValue = 1000
           /\ (Len(fed) \in 10..19 /\ StrictlyIncreasing(fed)) => m.rsiValue = 1000
           /\ (Len(fed) \in 10..19 /\ StrictlyDecreasing(fed)) => m.rsiValue = 0

\* ------------------------------------------------------------------ C32
\* The price of the newest bucket at or before t, 0 for null.
NewestBucketAtOrBefore(buckets, t) ==
    LET atOrBefore == {i \in 1..Len(buckets) : buckets[i].time <= t}
    IN IF atOrBefore = {} THEN 0
       ELSE buckets[CHOOSE i \in atOrBefore : \A j \in atOrBefore : j <= i].price

\* C32: the bucket ring holds at most one bucket per 100 ms floor. After
\* every step the bucket times are multiples of 100 and strictly
\* increasing and getHistoricalPrice gives the price of the newest bucket
\* at or before the time asked for, null when there is none; only a tick
\* of a monitor with a price writes the ring: it overwrites the price of
\* the newest bucket when the tick falls in its floor and adds a bucket
\* for the floor otherwise.
C32_OneBucketPerFloor ==
    [][\A s \in DOMAIN mon :
          LET before == mon[s].priceBuckets
              after == mon'[s].priceBuckets
              floor == (now' \div 100) * 100
              lastPrice == mon[s].lastPrice
          IN /\ \A i \in 1..Len(after) : after[i].time % 100 = 0
             /\ \A i \in 1..(Len(after) - 1) : after[i].time < after[i + 1].time
             /\ \A t \in {now' - 2500, now' - 2000, now' - 200, now' - 100, now'} :
                   getHistoricalPrice(mon'[s], t) = NewestBucketAtOrBefore(after, t)
             /\ IF step' = "tick" /\ lastPrice > 0
                THEN IF before # <<>> /\ before[Len(before)].time = floor
                     THEN after = [before EXCEPT ![Len(before)].price = lastPrice]
                     ELSE after = (IF Len(before) = PriceBucketCapacity
                                   THEN Tail(before) ELSE before)
                                  \o <<[time |-> floor, price |-> lastPrice]>>
                ELSE after = before]_vars

\* A tick 50 ms after the bucket of the start time was written has
\* overwritten its price with the price of the trades that came since.
C32_Witness ==
    \E s \in DOMAIN mon :
        LET buckets == mon[s].priceBuckets
        IN /\ step = "tick" /\ now = StartTime + 50
           /\ Len(buckets) = PriceBucketCapacity
           /\ buckets[Len(buckets)] = [time |-> StartTime, price |-> 10012]
           /\ buckets[Len(buckets) - 1].time = StartTime - 200

\* ------------------------------------------------------------------ C33
\* C33: a tick that finds no price bucket at or before now - 2000 leaves
\* priceSlope as it was; a tick that finds one, with price priceThen,
\* makes it 0.4 * ((lastPrice - priceThen) / priceThen) / 2
\* + 0.6 * priceSlope (in micro, NaN when lastPrice is NaN).
C33_SlopeFromTheBucketTwoSecondsBack ==
    [][\A s \in DOMAIN mon :
          step' = "tick" =>
             LET lastPrice == mon'[s].lastPrice
                 priceThen == NewestBucketAtOrBefore(mon'[s].priceBuckets, now' - 2000)
                 slopePerS == (((lastPrice - priceThen) * 1000000) \div priceThen) \div 2
             IN mon'[s].priceSlope =
                   IF priceThen = 0 THEN mon[s].priceSlope
                   ELSE IF lastPrice = NaN THEN NaN
                   ELSE (4 * slopePerS + 6 * mon[s].priceSlope) \div 10]_vars

PersistFailed(k) ==
    tasks[k].pc = "rejected" /\ tasks[k].attempted = <<[call |-> "insertOne", tOffset |-> 0]>>

\* C35: the trigger time of an emission is stamped before its persist is
\* attempted. While the persist is pending and after it has failed, the
\* monitor's lastSignalTriggerTime is the trigger time of that emission or
\* of a later one, and every other emission of the symbol is at least
\* 6000 ms away from it: no emission is attempted during the cooldown the
\* lost emission started.
C35_LostEmissionStillStartsCooldown ==
    \A k \in 1..Len(tasks) :
        (tasks[k].pc = "insertOne" \/ PersistFailed(k)) =>
           LET stamp == mon[tasks[k].symbol].lastSignalTriggerTime
           IN /\ stamp = TriggerTime(k) \/ stamp - TriggerTime(k) >= 6000
              /\ now - TriggerTime(k) < 6000 => stamp = TriggerTime(k)
              /\ \A j \in 1..Len(tasks) :
                    (j # k /\ tasks[j].symbol = tasks[k].symbol) =>
                       \/ TriggerTime(j) - TriggerTime(k) >= 6000
                       \/ TriggerTime(k) - TriggerTime(j) >= 6000

\* The persist of an emission failed, the process went on, and a tick
\* inside the cooldown, with every other guard holding, emitted nothing.
C35_Witness ==
    \E k \in 1..Len(tasks) :
        LET m == mon[tasks[k].symbol]
        IN /\ PersistFailed(k) /\ alive /\ step = "tick"
           /\ now - TriggerTime(k) \in 1..5999
           /\ Triggers([m EXCEPT !.lastSignalTriggerTime = 0], now)
           /\ \A j \in 1..Len(tasks) : TriggerTime(j) <= TriggerTime(k)

\* ------------------------------------------------------------------ C36
\* C36: a trade of a second before the builder's bucket second changes
\* neither the current bar nor the bucket second nor the store. In every
\* trade step the bucket second of a pair does not decrease, and the bars
\* the step writes are for seconds from the old bucket second up to the
\* one before the new bucket second: after every second written by an
\* earlier trade.
C36_LateTradeIgnored ==
    [][step' = "trade" =>
          LET call == history'[Len(history')]
              pair == call.pair
              old == builders[pair]
          IN old.secBucketTS # Null =>
                /\ call.tsMs \div 1000 < old.secBucketTS =>
                       builders' = builders /\ secbar' = secbar
                /\ builders'[pair].secBucketTS >= old.secBucketTS
                /\ \A e \in secbar'[pair] \ secbar[pair] :
                       old.secBucketTS <= e.score /\ e.score < builders'[pair].secBucketTS
                /\ \A other \in DOMAIN builders \ {pair} :
                       builders'[other] = builders[other] /\ secbar'[other] = secbar[other]]_vars

\* A trade of second 1000 has come after the bar of second 1004 was
\* started and the bars before it were written.
C36_Witness ==
    /\ step = "trade"
    /\ LET call == history[Len(history)]
       IN /\ call.tsMs \div 1000 = TapeStartSec
          /\ builders[call.pair].secBucketTS = TapeStartSec + 4
          /\ secbar[call.pair] # {}

\* ------------------------------------------------------------------ C37
\* The price-derived indicator state of a monitor.
PriceIndicators(m) ==
    [rsiPriceHistory |-> m.rsiPriceHistory,
     ema9 |-> m.ema9, ema21 |-> m.ema21, ema50 |-> m.ema50,
     emaFast |-> m.emaFast, emaSlow |-> m.emaSlow,
     ppoLine |-> m.ppoLine, signalLine |-> m.signalLine,
     priceBuckets |-> m.priceBuckets]

\* C37: while no trade has been received (lastPrice = 0) a tick leaves the
\* RSI price history, the EMAs, the PPO and signal lines and the bucket
\* ring as the constructor made them.
C37_NoPriceNoIndicatorChange ==
    [][\A s \in DOMAIN mon :
          (step' = "tick" /\ mon'[s].lastPrice = 0) =>
             PriceIndicators(mon'[s]) = PriceIndicators(NewMonitor(s, mon'[s].marketCapTier))]_vars

\* ------------------------------------------------------------------ C38
\* C38: once disconnect() has returned (stop() calls it, and connect() is
\* not called again) no step spawns a socket: the transport tracks no
\* socket from then on, whatever reconnect timeouts were pending.
C38_NoSocketAfterDisconnect ==
    [][stopped.requested => (wsArr' = <<>> /\ step' # "respawn")]_vars

====
